---- MODULE Spec2Model ----
(***************************************************************************)
(* The idempotent, event-sourced write pipeline of the PMIS API            *)
(* (apps/api/app/tools/write_tools.py, idempotency.py, models.py) over one *)
(* shared transactional store.  Every db.commit() of the source is one     *)
(* atomic step; what a handler does between two commits lives in the       *)
(* handler's own session (proc) and is invisible to the other handlers.    *)
(* Time stamps and correlation ids are left out: no decision reads them.   *)
(***************************************************************************)
EXTENDS Integers, Sequences, FiniteSets, TLC

VARIABLES
    packages,          \* packages table: id -> Package.data (the attribute map)
    approvals,         \* approvals table, row i has id i
    events,            \* events table, row i has id i
    tasks,             \* tasks table, row i has id i
    idempotency_logs,  \* idempotency_logs table: a set of rows, key is primary
    service_modes,     \* service mode records written by toggle_service_mode
    proc,              \* per request handler: position and session state
    calls,             \* every invocation made so far, with what it returned
    lookup             \* PackageTransitions._TRANSITIONS and _TRANSITION_DETAILS

vars == <<packages, approvals, events, tasks, idempotency_logs, service_modes,
          proc, calls, lookup>>

----------------------------------------------------------------------------
(* Bounds and input domains *)

MaxCalls == 3

Procs == {1, 2}
Caller == CHOOSE p \in Procs : TRUE
Keys == {"k1", "k2"}
NoKey == "null"
PackageIds == {1}
PackageArgs == {1, 2}
ApprovalArgs == {1, 2}
FirstApproval == {1}
Titles == {"Task 1", "Task 2"}
Payloads == {"data1", "data2"}
Modes == {"safe", "read_only"}
Decisions == {"approved", "rejected"}
\* The decision strings a caller may send: other spellings, other words, none.
DecisionStrings == Decisions \cup {"APPROVED", "maybe", ""}

Absent == "absent"
AttrKeys == {"status", "version"}
PatchNames == {"submit", "activate", "version"}

PatchOf(name) ==
    CASE name = "submit"   -> [k \in AttrKeys |-> IF k = "status" THEN "submitted" ELSE Absent]
      [] name = "activate" -> [k \in AttrKeys |-> IF k = "status" THEN "active" ELSE Absent]
      [] OTHER             -> [k \in AttrKeys |-> IF k = "version" THEN "2.0" ELSE Absent]

----------------------------------------------------------------------------
(* Policy table: PackageTransitions *)

PackageRules ==
    { <<"draft", "submitted">>, <<"submitted", "in_review">>,
      <<"in_review", "approved">>, <<"in_review", "submitted">>,
      <<"submitted", "draft">>, <<"approved", "awarded">>,
      <<"awarded", "active">>, <<"active", "on_hold">>,
      <<"on_hold", "active">>, <<"active", "completed">>,
      <<"approved", "cancelled">>, <<"awarded", "cancelled">>,
      <<"active", "cancelled">>, <<"completed", "archived">>,
      <<"cancelled", "archived">> }

\* A registry without the way back from on_hold.
PackageIsValidHolding(from_status, to_status) ==
    /\ <<from_status, to_status>> \in PackageRules
    /\ from_status # "on_hold"

\* A registry that lets an archived package be drafted again.
PackageIsValidReopening(from_status, to_status) ==
    \/ <<from_status, to_status>> \in PackageRules
    \/ from_status = "archived" /\ to_status = "draft"

PackageIsValid(from_status, to_status) == <<from_status, to_status>> \in PackageRules

\* PackageTransitions.RULES in the order of the list.
PackageRuleList ==
    << <<"draft", "submitted">>, <<"submitted", "in_review">>,
       <<"in_review", "approved">>, <<"in_review", "submitted">>,
       <<"submitted", "draft">>, <<"approved", "awarded">>,
       <<"awarded", "active">>, <<"active", "on_hold">>,
       <<"on_hold", "active">>, <<"active", "completed">>,
       <<"approved", "cancelled">>, <<"awarded", "cancelled">>,
       <<"active", "cancelled">>, <<"completed", "archived">>,
       <<"cancelled", "archived">> >>

\* The two lookup tables before the first call: both dicts empty.
EmptyLookup == [transitions |-> <<>>, details |-> {}]

\* The two lookup tables after _build_lookup has run through the list.
BuiltLookup ==
    [transitions |->
        [from_key \in {edge[1] : edge \in PackageRules} |->
            {edge[2] : edge \in {e \in PackageRules : e[1] = from_key}}],
     details |-> PackageRules]

----------------------------------------------------------------------------
(* Rows and results *)

NoResult == [kind |-> "none", id |-> 0, package_id |-> 0, status |-> "none",
             detail |-> "none", event_id |-> 0]

Ok(id, package_id, status, detail, event_id) ==
    [kind |-> "ok", id |-> id, package_id |-> package_id, status |-> status,
     detail |-> detail, event_id |-> event_id]

Raised(kind, detail) == [NoResult EXCEPT !.kind = kind, !.detail = detail]

IdleProc == [pc |-> "idle", call |-> 0, data |-> [k \in AttrKeys |-> Absent],
             result |-> NoResult]

NewEvent(event_type, entity_type, entity_id, package_id, payload, approval_id, triggered_by, idempotency_key) ==
    [event_type |-> event_type, entity_type |-> entity_type,
     entity_id |-> entity_id, package_id |-> package_id, payload |-> payload,
     approval_id |-> approval_id, triggered_by |-> triggered_by,
     idempotency_key |-> idempotency_key]

----------------------------------------------------------------------------
(* Storage constraints *)

\* The events table without its unique constraint.
EventKeysUnchecked(news) == TRUE

\* uq_event_idempotency: no two rows of events share a non-null key.  `news`
\* are the rows one commit inserts.
EventKeysUnique(news) ==
    /\ \A i, j \in 1..Len(news) :
          (i # j /\ news[i].idempotency_key # NoKey)
              => news[i].idempotency_key # news[j].idempotency_key
    /\ \A i \in 1..Len(news) : \A e \in 1..Len(events) :
          news[i].idempotency_key # NoKey
              => events[e].idempotency_key # news[i].idempotency_key

----------------------------------------------------------------------------
(* idempotency.py *)

HasLog(key) == \E l \in idempotency_logs : l.idempotency_key = key

get_idempotent_result(key) ==
    (CHOOSE l \in idempotency_logs : l.idempotency_key = key).result

\* A check that never finds the stored row.
check_idempotency_blind(key) == TRUE

\* is_new of check_idempotency
check_idempotency(key) == ~HasLog(key)

\* A store whose insert is never committed.
store_idempotent_result_lost(key, operation, result) == idempotency_logs

\* The table after store_idempotent_result: the insert commits unless the key
\* is taken, and then the IntegrityError is swallowed and the table is as before.
store_idempotent_result(key, operation, result) ==
    IF HasLog(key)
    THEN idempotency_logs
    ELSE idempotency_logs \cup
            {[idempotency_key |-> key, operation |-> operation, result |-> result]}

----------------------------------------------------------------------------
(* Invocation bookkeeping *)

NewCall(p, op, key, target, arg) ==
    [op |-> op, key |-> key, target |-> target, arg |-> arg, proc |-> p,
     state |-> "running", result |-> NoResult]

CanCall(p) == proc[p].pc = "idle" /\ Len(calls) < MaxCalls

Me(p) == calls[proc[p].call]

\* The handler enters its body: it is past its idempotency check.
Enter(p, c, pc) ==
    /\ calls' = Append(calls, c)
    /\ proc' = [proc EXCEPT ![p] = [IdleProc EXCEPT !.pc = pc, !.call = Len(calls) + 1]]

\* The handler returns at once, without having entered its body.
ReturnAtOnce(p, c, state, result) ==
    /\ calls' = Append(calls, [c EXCEPT !.state = state, !.result = result])
    /\ UNCHANGED proc

\* The handler leaves its body by return or by exception.
Finish(p, state, result) ==
    /\ calls' = [calls EXCEPT ![proc[p].call] =
                    [@ EXCEPT !.state = state, !.result = result]]
    /\ proc' = [proc EXCEPT ![p] = IdleProc]

Goto(p, pc) ==
    /\ proc' = [proc EXCEPT ![p].pc = pc]
    /\ UNCHANGED calls

----------------------------------------------------------------------------
(* propose_package_patch *)

\* A propose that hands back a pending approval of the same package and
\* patch where there is one, and files none.
ProposeBeginGated(p, package_id, patch) ==
    /\ CanCall(p)
    /\ LET c == NewCall(p, "propose_package_patch", "null", package_id, patch)
           same == {a \in DOMAIN approvals :
                       /\ approvals[a].package_id = package_id
                       /\ approvals[a].patch_json = patch
                       /\ approvals[a].status = "pending"}
       IN IF package_id \notin DOMAIN packages
          THEN ReturnAtOnce(p, c, "raised", Raised("ValueError", "not found"))
          ELSE IF same # {}
          THEN ReturnAtOnce(p, c, "returned",
                            Ok(CHOOSE a \in same : TRUE, 0, "pending", "none", 0))
          ELSE Enter(p, c, "pr_commit_approval")
    /\ UNCHANGED <<lookup, packages, approvals, events, tasks, idempotency_logs, service_modes>>

\* A propose that does not look the package up.
ProposeBeginUnchecked(p, package_id, patch) ==
    /\ CanCall(p)
    /\ Enter(p, NewCall(p, "propose_package_patch", NoKey, package_id, patch),
             "pr_commit_approval")
    /\ UNCHANGED <<lookup, packages, approvals, events, tasks, idempotency_logs, service_modes>>

\* Lines 170-173: the package lookup that opens the handler.
ProposeBegin(p, package_id, patch) ==
    /\ CanCall(p)
    /\ LET c == NewCall(p, "propose_package_patch", NoKey, package_id, patch)
       IN IF package_id \in DOMAIN packages
          THEN Enter(p, c, "pr_commit_approval")
          ELSE ReturnAtOnce(p, c, "raised", Raised("ValueError", "not found"))
    /\ UNCHANGED <<lookup, packages, approvals, events, tasks, idempotency_logs, service_modes>>

\* A propose that writes the patch into the package as it files the approval.
ProposeCommitApprovalApplying(p) ==
    /\ proc[p].pc = "pr_commit_approval"
    /\ approvals' = Append(approvals,
          [package_id |-> Me(p).target, patch_json |-> Me(p).arg,
           requested_by |-> p, status |-> "pending", decided_by |-> 0, decided_at |-> 0])
    /\ packages' = [packages EXCEPT ![Me(p).target] = PatchOf(Me(p).arg)]
    /\ proc' = [proc EXCEPT ![p].pc = "pr_commit_event",
                            ![p].result = Ok(Len(approvals) + 1, 0, "pending", "none", 0)]
    /\ UNCHANGED <<lookup, events, tasks, idempotency_logs, service_modes, calls>>

\* Lines 175-185: the approval row is committed on its own.
ProposeCommitApproval(p) ==
    /\ proc[p].pc = "pr_commit_approval"
    /\ approvals' = Append(approvals,
          [package_id |-> Me(p).target, patch_json |-> Me(p).arg,
           requested_by |-> p, status |-> "pending", decided_by |-> 0, decided_at |-> 0])
    /\ proc' = [proc EXCEPT ![p].pc = "pr_commit_event",
                            ![p].result = Ok(Len(approvals) + 1, 0, "pending", "none", 0)]
    /\ UNCHANGED <<lookup, packages, events, tasks, idempotency_logs, service_modes, calls>>

\* A second commit that rewrites the log instead of inserting into it.
ProposeCommitEventOverwriting(p) ==
    /\ proc[p].pc = "pr_commit_event"
    /\ events' = <<NewEvent("approval_created", "approval", proc[p].result.id,
                            Me(p).target, Me(p).arg, 0, p, NoKey)>>
    /\ Finish(p, "returned", proc[p].result)
    /\ UNCHANGED <<lookup, packages, approvals, tasks, idempotency_logs, service_modes>>

\* Lines 187-208: the APPROVAL_CREATED event is a second commit; its key is null.
ProposeCommitEvent(p) ==
    /\ proc[p].pc = "pr_commit_event"
    /\ events' = Append(events,
          NewEvent("approval_created", "approval", proc[p].result.id,
                   Me(p).target, Me(p).arg, 0, p, NoKey))
    /\ Finish(p, "returned",
              [proc[p].result EXCEPT !.status = approvals[proc[p].result.id].status])
    /\ UNCHANGED <<lookup, packages, approvals, tasks, idempotency_logs, service_modes>>

----------------------------------------------------------------------------
(* approve_proposal *)

\* The status check of line 237 left out.
IsPendingUnchecked(approval) == TRUE

\* Line 237: only a pending approval can be decided.
IsPending(approval) == approval.status = "pending"

\* Line 253: dict.update, a shallow merge where the patch wins.
DictUpdate(data, patch) ==
    [k \in AttrKeys |-> IF patch[k] # Absent THEN patch[k] ELSE data[k]]

\* str.lower on the decision strings callers send.
Lower(s) ==
    CASE s = "APPROVED" -> "approved"
      [] s = "Approved" -> "approved"
      [] s = "REJECTED" -> "rejected"
      [] OTHER -> s

\* Line 244: the decision is an approval.
IsApproval(decision) == Lower(decision) = "approved"

\* A decision that leaves the approval as it is unless it is spelled
\* 'approved' or 'rejected'.
DecidedStatusStrict(decision) ==
    IF IsApproval(decision) THEN "approved"
    ELSE IF Lower(decision) = "rejected" THEN "rejected" ELSE "pending"

\* Lines 244-245 and 271-272: the status the decision gives the approval.
DecidedStatus(decision) == IF IsApproval(decision) THEN "approved" ELSE "rejected"

\* A decision that adds the patch event whatever was decided.
DecisionEventsBoth(p, approval_id, approval, decision, key) ==
    <<NewEvent("package_patched", "package", approval.package_id,
               approval.package_id, approval.patch_json, approval_id, p, key),
      NewEvent("approval_decided", "approval", approval_id,
               approval.package_id, decision, 0, p, key)>>

\* Lines 256-268 and 275-287: the events one decision adds to the session.
DecisionEvents(p, approval_id, approval, decision, key) ==
    LET decision_event ==
            NewEvent("approval_decided", "approval", approval_id,
                     approval.package_id, decision, 0, p, key)
        patch_event ==
            NewEvent("package_patched", "package", approval.package_id,
                     approval.package_id, approval.patch_json, approval_id, p, key)
    IN IF IsApproval(decision)
       THEN <<patch_event, decision_event>>
       ELSE <<decision_event>>

\* Lines 227-230: the idempotency check that opens the handler.
ApproveBegin(p, approval_id, decision, key) ==
    /\ CanCall(p)
    /\ LET c == NewCall(p, "approve_proposal", key, approval_id, decision)
       IN IF check_idempotency(key)
          THEN Enter(p, c, "ap_load")
          ELSE ReturnAtOnce(p, c, "returned", get_idempotent_result(key))
    /\ UNCHANGED <<lookup, packages, approvals, events, tasks, idempotency_logs, service_modes>>

\* Lines 232-245, 271-272: the approval is read and checked; the decision is
\* made on the session's copy of the row.
ApproveLoad(p) ==
    /\ proc[p].pc = "ap_load"
    /\ LET approval_id == Me(p).target
       IN IF approval_id \notin DOMAIN approvals
          THEN Finish(p, "raised", Raised("ValueError", "not found"))
          ELSE IF ~IsPending(approvals[approval_id])
          THEN Finish(p, "raised",
                      Raised("ValueError", approvals[approval_id].status))
          ELSE IF IsApproval(Me(p).arg)
          THEN Goto(p, "ap_apply")
          ELSE Goto(p, "ap_commit")
    /\ UNCHANGED <<lookup, packages, approvals, events, tasks, idempotency_logs, service_modes>>

\* Lines 247-253: the package is read and the patch merged into the session's
\* copy of its attribute map.  No policy is consulted.
ApproveApply(p) ==
    /\ proc[p].pc = "ap_apply"
    /\ LET approval == approvals[Me(p).target]
       IN proc' = [proc EXCEPT
                     ![p].pc = "ap_commit",
                     ![p].data = DictUpdate(packages[approval.package_id],
                                            PatchOf(approval.patch_json))]
    /\ UNCHANGED <<lookup, packages, approvals, events, tasks, idempotency_logs,
                   service_modes, calls>>

\* Lines 239-241 and 288-297: decided_by and decided_at (the time of the
\* call, which stands here as the number of the call) are set on the
\* session's copy before the status is; one commit flushes the approval
\* row, the package row and the events.  The flush fails as a whole when an
\* event key is already taken.
ApproveCommit(p) ==
    /\ proc[p].pc = "ap_commit"
    /\ LET approval_id == Me(p).target
           approval == approvals[approval_id]
           decision == Me(p).arg
           status == DecidedStatus(decision)
           news == DecisionEvents(p, approval_id, approval, decision, Me(p).key)
       IN IF EventKeysUnique(news)
          THEN /\ approvals' = [approvals EXCEPT ![approval_id].status = status,
                                                 ![approval_id].decided_by = p,
                                                 ![approval_id].decided_at = proc[p].call]
               /\ packages' = IF IsApproval(decision)
                              THEN [packages EXCEPT ![approval.package_id] = proc[p].data]
                              ELSE packages
               /\ events' = events \o news
               /\ proc' = [proc EXCEPT
                             ![p].pc = "ap_store",
                             ![p].result = Ok(approval_id, 0, status, decision, 0)]
               /\ UNCHANGED calls
          ELSE /\ Finish(p, "raised", Raised("IntegrityError", "uq_event_idempotency"))
               /\ UNCHANGED <<packages, approvals, events>>
    /\ UNCHANGED <<lookup, tasks, idempotency_logs, service_modes>>

\* Lines 299-300: the result is stored under the key and returned.
ApproveStore(p) ==
    /\ proc[p].pc = "ap_store"
    /\ idempotency_logs' =
          store_idempotent_result(Me(p).key, "approve_proposal", proc[p].result)
    /\ Finish(p, "returned", proc[p].result)
    /\ UNCHANGED <<lookup, packages, approvals, events, tasks, service_modes>>

----------------------------------------------------------------------------
(* create_task *)

\* Lines 96-118: idempotency check, package lookup, task built in the session.
CreateTaskBegin(p, package_id, title, key) ==
    /\ CanCall(p)
    /\ LET c == NewCall(p, "create_task", key, package_id, title)
       IN IF ~check_idempotency(key)
          THEN ReturnAtOnce(p, c, "returned", get_idempotent_result(key))
          ELSE IF package_id \notin DOMAIN packages
          THEN ReturnAtOnce(p, c, "raised", Raised("ValueError", "not found"))
          ELSE Enter(p, c, "ct_commit")
    /\ UNCHANGED <<lookup, packages, approvals, events, tasks, idempotency_logs, service_modes>>

\* Lines 120-151: the task row and its TASK_CREATED event are committed
\* together; the commit is not guarded against the event key being taken.
CreateTaskCommit(p) ==
    /\ proc[p].pc = "ct_commit"
    /\ LET task_id == Len(tasks) + 1
           event == NewEvent("task_created", "task", task_id, Me(p).target,
                             Me(p).arg, 0, p, Me(p).key)
       IN IF EventKeysUnique(<<event>>)
          THEN /\ tasks' = Append(tasks, [package_id |-> Me(p).target,
                                          title |-> Me(p).arg, status |-> "pending"])
               /\ events' = Append(events, event)
               /\ proc' = [proc EXCEPT
                             ![p].pc = "ct_store",
                             ![p].result = Ok(task_id, Me(p).target, "pending",
                                              Me(p).arg, Len(events) + 1)]
               /\ UNCHANGED calls
          ELSE /\ Finish(p, "raised", Raised("IntegrityError", "uq_event_idempotency"))
               /\ UNCHANGED <<tasks, events>>
    /\ UNCHANGED <<lookup, packages, approvals, idempotency_logs, service_modes>>

\* Lines 153-154.
CreateTaskStore(p) ==
    /\ proc[p].pc = "ct_store"
    /\ idempotency_logs' =
          store_idempotent_result(Me(p).key, "create_task", proc[p].result)
    /\ Finish(p, "returned", proc[p].result)
    /\ UNCHANGED <<lookup, packages, approvals, events, tasks, service_modes>>

----------------------------------------------------------------------------
(* append_event *)

\* Lines 44-60: the key is required, then the idempotency check.
AppendEventBegin(p, entity_id, payload, key) ==
    /\ CanCall(p)
    /\ LET c == NewCall(p, "append_event", key, entity_id, payload)
       IN IF key = NoKey
          THEN ReturnAtOnce(p, c, "raised", Raised("ValueError", "key required"))
          ELSE IF ~check_idempotency(key)
          THEN ReturnAtOnce(p, c, "returned", get_idempotent_result(key))
          ELSE Enter(p, c, "ae_commit")
    /\ UNCHANGED <<lookup, packages, approvals, events, tasks, idempotency_logs, service_modes>>

\* Lines 62-71: the event is committed; the commit is not guarded.  The event
\* type is the caller's, here the worker's email ingestion.
AppendEventCommit(p) ==
    /\ proc[p].pc = "ae_commit"
    /\ LET event == NewEvent("email_ingested", "package", Me(p).target, Me(p).target,
                             Me(p).arg, 0, p, Me(p).key)
       IN IF EventKeysUnique(<<event>>)
          THEN /\ events' = Append(events, event)
               /\ proc' = [proc EXCEPT
                             ![p].pc = "ae_store",
                             ![p].result = Ok(0, 0, "email_ingested", Me(p).key,
                                              Len(events) + 1)]
               /\ UNCHANGED calls
          ELSE /\ Finish(p, "raised", Raised("IntegrityError", "uq_event_idempotency"))
               /\ UNCHANGED events
    /\ UNCHANGED <<lookup, packages, approvals, tasks, idempotency_logs, service_modes>>

\* Lines 73-76.
AppendEventStore(p) ==
    /\ proc[p].pc = "ae_store"
    /\ idempotency_logs' =
          store_idempotent_result(Me(p).key, "append_event", proc[p].result)
    /\ Finish(p, "returned", proc[p].result)
    /\ UNCHANGED <<lookup, packages, approvals, events, tasks, service_modes>>

----------------------------------------------------------------------------
(* ops_orchestrator.toggle_service_mode: a writer whose only keyed row is *)
(* the idempotency record itself                                          *)

\* Lines 92-96, called by an admin.
ToggleBegin(p, mode, key) ==
    /\ CanCall(p)
    /\ LET c == NewCall(p, "toggle_service_mode", key, 0, mode)
       IN IF check_idempotency(key)
          THEN Enter(p, c, "tg_commit")
          ELSE ReturnAtOnce(p, c, "returned", get_idempotent_result(key))
    /\ UNCHANGED <<lookup, packages, approvals, events, tasks, idempotency_logs, service_modes>>

\* Lines 98-100.
ToggleCommit(p) ==
    /\ proc[p].pc = "tg_commit"
    /\ service_modes' = Append(service_modes, [mode |-> Me(p).arg, set_by |-> p])
    /\ proc' = [proc EXCEPT ![p].pc = "tg_store",
                            ![p].result = Ok(0, 0, "none", Me(p).arg, 0)]
    /\ UNCHANGED <<lookup, packages, approvals, events, tasks, idempotency_logs, calls>>

\* Lines 101-102: the handler returns what it computed, stored or not.
ToggleStore(p) ==
    /\ proc[p].pc = "tg_store"
    /\ idempotency_logs' =
          store_idempotent_result(Me(p).key, "toggle_service_mode", proc[p].result)
    /\ Finish(p, "returned", proc[p].result)
    /\ UNCHANGED <<lookup, packages, approvals, events, tasks, service_modes>>

----------------------------------------------------------------------------
(* A handler that stops between two of its steps: the process dies, its    *)
(* session is lost, what it committed stays.                               *)

Crash(p) ==
    /\ proc[p].pc # "idle"
    /\ Finish(p, "crashed", NoResult)
    /\ UNCHANGED <<lookup, packages, approvals, events, tasks, idempotency_logs, service_modes>>

Init ==
    /\ packages =[i \in PackageIds |->
                     [k \in AttrKeys |-> IF k = "status" THEN "draft" ELSE Absent]]
    /\ approvals = <<>>
    /\ events = <<>>
    /\ tasks = <<>>
    /\ idempotency_logs = {}
    /\ service_modes = <<>>
    /\ lookup = BuiltLookup
    /\ proc = [p \in Procs |-> IdleProc]
    /\ calls = <<>>

----------------------------------------------------------------------------
(* Specifications.  Handlers run in separate processes (API workers, the   *)
(* background worker) against the one store, so their steps interleave     *)
(* freely; a sequential caller is one handler running call after call.     *)

ApprovalBegin(p) ==
    \/ \E package_id \in PackageArgs, patch \in PatchNames :
          ProposeBegin(p, package_id, patch)
    \/ \E approval_id \in ApprovalArgs, decision \in Decisions, key \in Keys :
          ApproveBegin(p, approval_id, decision, key)

ApprovalStep(p) ==
    \/ ProposeCommitApproval(p)
    \/ ProposeCommitEvent(p)
    \/ ApproveLoad(p)
    \/ ApproveApply(p)
    \/ ApproveCommit(p)
    \/ ApproveStore(p)

WriteBegin(p) ==
    \/ \E package_id \in PackageArgs, title \in Titles, key \in Keys :
          CreateTaskBegin(p, package_id, title, key)
    \/ \E entity_id \in PackageIds, payload \in Payloads, key \in Keys \cup {NoKey} :
          AppendEventBegin(p, entity_id, payload, key)
    \/ \E mode \in Modes, key \in Keys :
          ToggleBegin(p, mode, key)

WriteStep(p) ==
    \/ CreateTaskCommit(p)
    \/ CreateTaskStore(p)
    \/ AppendEventCommit(p)
    \/ AppendEventStore(p)
    \/ ToggleCommit(p)
    \/ ToggleStore(p)

\* The approval workflow under concurrent handlers, any of which may die.
ApprovalNext == \E p \in Procs : ApprovalBegin(p) \/ ApprovalStep(p) \/ Crash(p)

ApprovalSpec == Init /\ [][ApprovalNext]_vars

\* The approval workflow under one caller whose calls all run to their end.
ApprovalSeqNext == \E p \in {Caller} : ApprovalBegin(p) \/ ApprovalStep(p)

ApprovalSeqSpec == Init /\ [][ApprovalSeqNext]_vars

\* The direct writes under concurrent handlers, any of which may die.
WriteNext == \E p \in Procs : WriteBegin(p) \/ WriteStep(p) \/ Crash(p)

WriteSpec == Init /\ [][WriteNext]_vars

\* The direct writes under one caller whose calls all run to their end.
WriteSeqNext == \E p \in {Caller} : WriteBegin(p) \/ WriteStep(p)

WriteSeqSpec == Init /\ [][WriteSeqNext]_vars

EventBegin(p) ==
    \/ \E package_id \in PackageArgs, title \in Titles, key \in Keys :
          CreateTaskBegin(p, package_id, title, key)
    \/ \E entity_id \in PackageIds, payload \in Payloads, key \in Keys \cup {NoKey} :
          AppendEventBegin(p, entity_id, payload, key)

EventStep(p) ==
    \/ CreateTaskCommit(p)
    \/ CreateTaskStore(p)
    \/ AppendEventCommit(p)
    \/ AppendEventStore(p)

\* The four write paths of write_tools.py under one caller whose calls all
\* run to their end, on entities that exist and on entities that do not.
PipelineSeqNext ==
    \E p \in {Caller} : ApprovalBegin(p) \/ ApprovalStep(p) \/ EventBegin(p) \/ EventStep(p)

PipelineSeqSpec == Init /\ [][PipelineSeqNext]_vars

\* The four write paths on the package that exists, with one patch, one title
\* and one payload (what these carry decides nothing in the handlers), the
\* decide calls all made on the first approval filed.
PipelineBegin(p) ==
    \/ \E package_id \in PackageIds : ProposeBegin(p, package_id, "version")
    \/ \E approval_id \in FirstApproval, decision \in Decisions, key \in Keys :
          ApproveBegin(p, approval_id, decision, key)
    \/ \E package_id \in PackageIds, key \in Keys :
          CreateTaskBegin(p, package_id, "Task 1", key)
    \/ \E entity_id \in PackageIds, key \in Keys \cup {NoKey} :
          AppendEventBegin(p, entity_id, "data1", key)

\* The write paths under concurrent handlers whose calls all run to their end.
PipelineNext == \E p \in Procs : PipelineBegin(p) \/ ApprovalStep(p) \/ EventStep(p)

PipelineSpec == Init /\ [][PipelineNext]_vars

\* Two approvals filed by propose_package_patch (lines 175-202) and not yet
\* decided, each with its APPROVAL_CREATED event.
FiledApproval(package_id) ==
    [package_id |-> package_id, patch_json |-> "version", requested_by |-> Caller,
     status |-> "pending", decided_by |-> 0, decided_at |-> 0]

KeyReuseInit ==
    /\ packages = [i \in PackageIds |->
                     [k \in AttrKeys |-> IF k = "status" THEN "draft" ELSE Absent]]
    /\ approvals = <<FiledApproval(1), FiledApproval(1)>>
    /\ events = [a \in 1..2 |->
                   NewEvent("approval_created", "approval", a, 1, "version", 0, Caller, NoKey)]
    /\ tasks = <<>>
    /\ idempotency_logs = {}
    /\ service_modes = <<>>
    /\ lookup = BuiltLookup
    /\ proc = [p \in Procs |-> IdleProc]
    /\ calls = <<>>

\* The three keyed write paths of write_tools.py under one caller whose calls
\* all run to their end, on two approvals that wait for their decision.
KeyReuseBegin(p) ==
    \/ \E approval_id \in ApprovalArgs, decision \in DecisionStrings, key \in Keys :
          ApproveBegin(p, approval_id, decision, key)
    \/ \E package_id \in PackageIds, key \in Keys :
          CreateTaskBegin(p, package_id, "Task 1", key)
    \/ \E entity_id \in PackageIds, key \in Keys :
          AppendEventBegin(p, entity_id, "data1", key)

KeyReuseStep(p) ==
    \/ ApproveLoad(p)
    \/ ApproveApply(p)
    \/ ApproveCommit(p)
    \/ ApproveStore(p)
    \/ CreateTaskCommit(p)
    \/ CreateTaskStore(p)
    \/ AppendEventCommit(p)
    \/ AppendEventStore(p)

KeyReuseNext == \E p \in {Caller} : KeyReuseBegin(p) \/ KeyReuseStep(p)

KeyReuseSpec == KeyReuseInit /\ [][KeyReuseNext]_vars

----------------------------------------------------------------------------
(* Policy tables: TaskTransitions, ApprovalMatrix, RiskMatrix *)

PackageStatuses ==
    {"draft", "submitted", "in_review", "approved", "awarded", "active",
     "on_hold", "completed", "cancelled", "archived"}

TaskStatuses ==
    {"pending", "in_progress", "blocked", "review_needed", "completed", "cancelled"}

TaskRules ==
    { <<"pending", "in_progress">>, <<"in_progress", "blocked">>,
      <<"blocked", "in_progress">>, <<"in_progress", "review_needed">>,
      <<"review_needed", "completed">>, <<"review_needed", "in_progress">>,
      <<"in_progress", "completed">>, <<"pending", "cancelled">>,
      <<"in_progress", "cancelled">>, <<"blocked", "cancelled">>,
      <<"review_needed", "cancelled">> }

\* A task registry that lets every edge through.
TaskIsValidAlways(from_status, to_status) == TRUE

TaskIsValid(from_status, to_status) == <<from_status, to_status>> \in TaskRules

\* A registry whose next-set is every status.
PackageValidNextAll(from_status) == PackageStatuses

PackageValidNext(from_status) ==
    {to_status \in PackageStatuses : <<from_status, to_status>> \in PackageRules}

TaskValidNext(from_status) ==
    {to_status \in TaskStatuses : <<from_status, to_status>> \in TaskRules}

\* The package edges whose Transition sets requires_approval.
PackageApprovalEdges ==
    { <<"approved", "awarded">>, <<"awarded", "cancelled">>, <<"active", "cancelled">> }

\* get_rule(...).requires_approval, false where there is no rule.
PackageRuleRequiresApproval(from_status, to_status) ==
    <<from_status, to_status>> \in PackageApprovalEdges

Roles == {"admin", "analyst", "operator", "viewer"}

\* An action "<entity>.status:<value>", "<entity>.metadata.update", ... is
\* kept as its three parts.
ApprovalRules ==
    { [action |-> <<"package", "status", "submitted">>, required_roles |-> {"analyst", "admin"}],
      [action |-> <<"package", "status", "in_review">>, required_roles |-> {"admin"}],
      [action |-> <<"package", "status", "approved">>, required_roles |-> {"admin"}],
      [action |-> <<"package", "status", "awarded">>, required_roles |-> {"admin"}],
      [action |-> <<"package", "status", "active">>, required_roles |-> {"admin", "operator"}],
      [action |-> <<"package", "status", "cancelled">>, required_roles |-> {"admin"}],
      [action |-> <<"task", "status", "review_needed">>, required_roles |-> {"analyst", "operator", "admin"}],
      [action |-> <<"task", "status", "completed">>, required_roles |-> {"analyst", "operator", "admin"}],
      [action |-> <<"task", "status", "cancelled">>, required_roles |-> {"operator", "admin"}],
      [action |-> <<"package", "metadata", "update">>, required_roles |-> {"analyst", "admin"}],
      [action |-> <<"package", "budget", "change">>, required_roles |-> {"admin"}],
      [action |-> <<"package", "scope", "change">>, required_roles |-> {"admin"}] }

NoAction == <<>>

HasApprovalRule(action) == \E rule \in ApprovalRules : rule.action = action

get_required_roles(action) ==
    (CHOOSE rule \in ApprovalRules : rule.action = action).required_roles

\* A reason is the words of its text, with the set it prints at its end
\* (statuses or role names) kept as a set.
Reason(words, names) == [words |-> words, names |-> names]

\* A matrix that is closed where it has no rule.
is_action_approved_closed(action, user_roles) ==
    IF HasApprovalRule(action) /\ user_roles \cap get_required_roles(action) # {}
    THEN [is_approved |-> TRUE,
          reason |-> Reason(<<"User", "has", "required", "role", "for">> \o action, {})]
    ELSE [is_approved |-> FALSE,
          reason |-> Reason(<<"Action">> \o action \o <<"requires", "one", "of:">>, {})]

\* A matrix that asks for every required role of a rule.
is_action_approved_all(action, user_roles) ==
    IF ~HasApprovalRule(action)
    THEN [is_approved |-> TRUE,
          reason |-> Reason(<<"No", "approval", "required", "for">> \o action, {})]
    ELSE IF get_required_roles(action) \subseteq user_roles
    THEN [is_approved |-> TRUE,
          reason |-> Reason(<<"User", "has", "required", "role", "for">> \o action, {})]
    ELSE [is_approved |-> FALSE,
          reason |-> Reason(<<"Action">> \o action \o <<"requires", "one", "of:">>,
                            get_required_roles(action))]

is_action_approved(action, user_roles) ==
    IF ~HasApprovalRule(action)
    THEN [is_approved |-> TRUE,
          reason |-> Reason(<<"No", "approval", "required", "for">> \o action, {})]
    ELSE IF user_roles \cap get_required_roles(action) # {}
    THEN [is_approved |-> TRUE,
          reason |-> Reason(<<"User", "has", "required", "role", "for">> \o action, {})]
    ELSE [is_approved |-> FALSE,
          reason |-> Reason(<<"Action">> \o action \o <<"requires", "one", "of:">>,
                            get_required_roles(action))]

Levels == {"low", "medium", "high", "critical"}

RiskArbitration(decision_type, description, notification_required) ==
    [decision_type |-> decision_type, description |-> description,
     notification_required |-> notification_required]

\* A matrix whose every cell lets the change through.
RiskMatrixAllAuto(impact, uncertainty) == RiskArbitration("auto", <<"proceed">>, FALSE)

RiskMatrix(impact, uncertainty) ==
    CASE <<impact, uncertainty>> = <<"low", "low">> ->
            RiskArbitration("auto", <<"Low", "impact,", "well-understood", "->", "proceed", "automatically">>, FALSE)
      [] <<impact, uncertainty>> = <<"low", "medium">> ->
            RiskArbitration("auto", <<"Low", "impact,", "some", "unknowns", "->", "proceed", "with", "monitoring">>, FALSE)
      [] <<impact, uncertainty>> = <<"low", "high">> ->
            RiskArbitration("confirm", <<"Low", "impact,", "high", "uncertainty", "->", "confirm", "but", "don't", "block">>, TRUE)
      [] <<impact, uncertainty>> = <<"low", "critical">> ->
            RiskArbitration("approval_required", <<"Low", "impact,", "highly", "unpredictable", "->", "require", "approval">>, FALSE)
      [] <<impact, uncertainty>> = <<"medium", "low">> ->
            RiskArbitration("auto", <<"Moderate", "impact,", "well-understood", "->", "proceed">>, FALSE)
      [] <<impact, uncertainty>> = <<"medium", "medium">> ->
            RiskArbitration("confirm", <<"Moderate", "impact/uncertainty", "->", "confirm", "with", "stakeholders">>, TRUE)
      [] <<impact, uncertainty>> = <<"medium", "high">> ->
            RiskArbitration("approval_required", <<"Moderate", "impact,", "high", "uncertainty", "->", "require", "formal", "approval">>, FALSE)
      [] <<impact, uncertainty>> = <<"medium", "critical">> ->
            RiskArbitration("executive_approval", <<"Moderate", "impact,", "critical", "uncertainty", "->", "escalate", "to", "leadership">>, FALSE)
      [] <<impact, uncertainty>> = <<"high", "low">> ->
            RiskArbitration("approval_required", <<"High", "impact,", "well-understood", "->", "require", "approval">>, FALSE)
      [] <<impact, uncertainty>> = <<"high", "medium">> ->
            RiskArbitration("approval_required", <<"High", "impact,", "moderate", "uncertainty", "->", "require", "approval">>, FALSE)
      [] <<impact, uncertainty>> = <<"high", "high">> ->
            RiskArbitration("executive_approval", <<"High", "impact,", "high", "uncertainty", "->", "escalate", "to", "leadership">>, FALSE)
      [] <<impact, uncertainty>> = <<"high", "critical">> ->
            RiskArbitration("escalate", <<"High", "impact,", "critical", "uncertainty", "->", "escalate", "for", "expert", "review">>, FALSE)
      [] <<impact, uncertainty>> = <<"critical", "low">> ->
            RiskArbitration("executive_approval", <<"Critical", "impact,", "well-understood", "->", "escalate", "to", "top", "leadership">>, FALSE)
      [] <<impact, uncertainty>> = <<"critical", "medium">> ->
            RiskArbitration("executive_approval", <<"Critical", "impact,", "moderate", "uncertainty", "->", "escalate", "to", "top", "leadership">>, FALSE)
      [] <<impact, uncertainty>> = <<"critical", "high">> ->
            RiskArbitration("escalate", <<"Critical", "impact,", "high", "uncertainty", "->", "escalate", "for", "expert", "judgment">>, FALSE)
      [] <<impact, uncertainty>> = <<"critical", "critical">> ->
            RiskArbitration("escalate", <<"Critical", "impact,", "critical", "uncertainty", "->", "escalate", "immediately">>, FALSE)

\* ImpactLevel(impact), UncertaintyLevel(uncertainty): a string that is not a
\* value of the enum raises ValueError; a value that is not a string (None)
\* is passed on as it is.
get_decision_raises(impact, uncertainty) ==
    \/ impact # Absent /\ impact \notin Levels
    \/ uncertainty # Absent /\ uncertainty \notin Levels

\* MATRIX.get((impact, uncertainty)) is not None.
HasDecision(impact, uncertainty) == impact \in Levels /\ uncertainty \in Levels

risk_requires_approval(impact, uncertainty) ==
    IF ~HasDecision(impact, uncertainty) THEN TRUE
    ELSE RiskMatrix(impact, uncertainty).decision_type
            \in {"approval_required", "executive_approval", "escalate"}

\* An escalation rule that counts ESCALATE alone.
risk_requires_escalation_strict(impact, uncertainty) ==
    IF ~HasDecision(impact, uncertainty) THEN TRUE
    ELSE RiskMatrix(impact, uncertainty).decision_type = "escalate"

risk_requires_escalation(impact, uncertainty) ==
    IF ~HasDecision(impact, uncertainty) THEN TRUE
    ELSE RiskMatrix(impact, uncertainty).decision_type \in {"executive_approval", "escalate"}

----------------------------------------------------------------------------
(* The transition registries, queried and followed *)

\* _TRANSITION_DETAILS of each registry: the Transition kept under its edge.
PackageTransitionDetails ==
    [edge \in PackageRules |->
        [from_status |-> edge[1], to_status |-> edge[2],
         requires_approval |-> edge \in PackageApprovalEdges]]

TaskTransitionDetails ==
    [edge \in TaskRules |->
        [from_status |-> edge[1], to_status |-> edge[2], requires_approval |-> FALSE]]

\* get_rule: the set holding the rule, empty for None.
PackageGetRule(from_status, to_status) ==
    IF <<from_status, to_status>> \in DOMAIN PackageTransitionDetails
    THEN {PackageTransitionDetails[<<from_status, to_status>>]}
    ELSE {}

TaskGetRule(from_status, to_status) ==
    IF <<from_status, to_status>> \in DOMAIN TaskTransitionDetails
    THEN {TaskTransitionDetails[<<from_status, to_status>>]}
    ELSE {}

UnknownStatus == "unknown"

\* What one query of a registry returned.
TransitionQuery(entity_type, from_status, to_status, is_valid, rule, valid_next) ==
    [op |-> "transition", entity_type |-> entity_type,
     from_status |-> from_status, to_status |-> to_status,
     is_valid |-> is_valid, rule |-> rule, valid_next |-> valid_next,
     state |-> "returned"]

\* A package and a task in any status, the unknown one included.
TransitionInit ==
    /\ \E status \in PackageStatuses \cup {UnknownStatus} :
          packages = [i \in PackageIds |->
                        [k \in AttrKeys |-> IF k = "status" THEN status ELSE Absent]]
    /\ \E status \in TaskStatuses \cup {UnknownStatus} :
          tasks = <<[package_id |-> 1, title |-> "Task 1", status |-> status]>>
    /\ approvals = <<>>
    /\ events = <<>>
    /\ idempotency_logs = {}
    /\ service_modes = <<>>
    /\ lookup = BuiltLookup
    /\ proc = [p \in Procs |-> IdleProc]
    /\ calls = <<>>

\* The package registry is asked about a move of the package, which is made
\* where is_valid allows it.
PackageTransition(to_status) ==
    LET from_status == packages[1].status
    IN /\ calls' = <<TransitionQuery("package", from_status, to_status,
                                      PackageIsValid(from_status, to_status),
                                      PackageGetRule(from_status, to_status),
                                      PackageValidNext(from_status))>>
       /\ packages' = IF PackageIsValid(from_status, to_status)
                      THEN [packages EXCEPT ![1].status = to_status]
                      ELSE packages
       /\ UNCHANGED <<lookup, approvals, events, tasks, idempotency_logs, service_modes, proc>>

\* The same for the task and the task registry.
TaskTransition(to_status) ==
    LET from_status == tasks[1].status
    IN /\ calls' = <<TransitionQuery("task", from_status, to_status,
                                      TaskIsValid(from_status, to_status),
                                      TaskGetRule(from_status, to_status),
                                      TaskValidNext(from_status))>>
       /\ tasks' = IF TaskIsValid(from_status, to_status)
                   THEN [tasks EXCEPT ![1].status = to_status]
                   ELSE tasks
       /\ UNCHANGED <<lookup, packages, approvals, events, idempotency_logs, service_modes, proc>>

TransitionNext ==
    \/ \E to_status \in PackageStatuses \cup {UnknownStatus} : PackageTransition(to_status)
    \/ \E to_status \in TaskStatuses \cup {UnknownStatus} : TaskTransition(to_status)

TransitionSpec == TransitionInit /\ [][TransitionNext]_vars

----------------------------------------------------------------------------
(* PackageTransitions under threads: the lookup tables are built by the    *)
(* first call, without a lock; a thread can be switched out between any    *)
(* two operations on the shared dicts.                                     *)

RegistryOps == {"is_valid", "get_rule", "get_valid_next_statuses"}

\* The pairs (from, to) the callers ask about: the first and the last rule
\* of the list.
RegistryQueries == { <<"draft", "submitted">>, <<"cancelled", "archived">> }

\* The registry calls made in one run.
MaxRegistryCalls == 2

IdleThread == [pc |-> "idle", call |-> 0, rule |-> 0]

\* _TRANSITIONS.get(from_key, set())
TransitionsGet(from_key) ==
    IF from_key \in DOMAIN lookup.transitions THEN lookup.transitions[from_key] ELSE {}

\* What each method returns from the tables as they are, as a set: the
\* truth value, the rule found (none: empty), the next statuses.
RegistryAnswer(op, from_status, to_status) ==
    IF op = "is_valid" THEN {to_status \in TransitionsGet(from_status)}
    ELSE IF op = "get_rule" THEN {<<from_status, to_status>>} \cap lookup.details
    ELSE TransitionsGet(from_status)

\* No thread has called the registry yet.
RegistryInit ==
    /\ lookup = EmptyLookup
    /\ proc = [p \in Procs |-> IdleThread]
    /\ calls = <<>>
    /\ packages = [i \in PackageIds |->
                     [k \in AttrKeys |-> IF k = "status" THEN "draft" ELSE Absent]]
    /\ approvals = <<>>
    /\ events = <<>>
    /\ tasks = <<>>
    /\ idempotency_logs = {}
    /\ service_modes = <<>>

StoreUntouched ==
    UNCHANGED <<packages, approvals, events, tasks, idempotency_logs, service_modes>>

\* A thread enters is_valid, get_rule or get_valid_next_statuses.
RegistryCall(p, op, query) ==
    /\ proc[p].pc = "idle" /\ Len(calls) < MaxRegistryCalls
    /\ calls' = Append(calls, [op |-> op, from_status |-> query[1],
                               to_status |-> query[2], proc |-> p,
                               state |-> "running", result |-> {}])
    /\ proc' = [proc EXCEPT ![p] = [pc |-> "built?", call |-> Len(calls) + 1, rule |-> 0]]
    /\ UNCHANGED lookup
    /\ StoreUntouched

\* `if cls._TRANSITIONS: return`: a dict with any key in it counts as built.
BuildCheck(p) ==
    /\ proc[p].pc = "built?"
    /\ proc' = [proc EXCEPT ![p].pc = IF DOMAIN lookup.transitions # {}
                                      THEN "answer" ELSE "key?",
                            ![p].rule = 1]
    /\ UNCHANGED <<lookup, calls>>
    /\ StoreUntouched

\* `if from_key not in cls._TRANSITIONS`
BuildKeyCheck(p) ==
    /\ proc[p].pc = "key?"
    /\ proc' = [proc EXCEPT ![p].pc =
                    IF PackageRuleList[proc[p].rule][1] \in DOMAIN lookup.transitions
                    THEN "add" ELSE "new_key"]
    /\ UNCHANGED <<lookup, calls>>
    /\ StoreUntouched

\* `cls._TRANSITIONS[from_key] = set()`
BuildKeyAssign(p) ==
    /\ proc[p].pc = "new_key"
    /\ LET from_key == PackageRuleList[proc[p].rule][1]
       IN lookup' = [lookup EXCEPT !.transitions =
                        [k \in DOMAIN lookup.transitions \cup {from_key} |->
                            IF k = from_key THEN {} ELSE lookup.transitions[k]]]
    /\ proc' = [proc EXCEPT ![p].pc = "add"]
    /\ UNCHANGED calls
    /\ StoreUntouched

\* `cls._TRANSITIONS[from_key].add(to_key)`
BuildAdd(p) ==
    /\ proc[p].pc = "add"
    /\ LET edge == PackageRuleList[proc[p].rule]
       IN lookup' = [lookup EXCEPT !.transitions[edge[1]] = @ \cup {edge[2]}]
    /\ proc' = [proc EXCEPT ![p].pc = "detail"]
    /\ UNCHANGED calls
    /\ StoreUntouched

\* `cls._TRANSITION_DETAILS[(from_key, to_key)] = rule`, and on to the next
\* rule of the list.
BuildDetail(p) ==
    /\ proc[p].pc = "detail"
    /\ lookup' = [lookup EXCEPT !.details = @ \cup {PackageRuleList[proc[p].rule]}]
    /\ proc' = [proc EXCEPT ![p].pc = IF proc[p].rule = Len(PackageRuleList)
                                      THEN "answer" ELSE "key?",
                            ![p].rule = IF proc[p].rule = Len(PackageRuleList)
                                        THEN 0 ELSE proc[p].rule + 1]
    /\ UNCHANGED calls
    /\ StoreUntouched

\* The method reads its answer off the tables and returns.
RegistryReturn(p) ==
    /\ proc[p].pc = "answer"
    /\ calls' = [calls EXCEPT ![proc[p].call] =
                    [@ EXCEPT !.state = "returned",
                              !.result = RegistryAnswer(Me(p).op, Me(p).from_status,
                                                        Me(p).to_status)]]
    /\ proc' = [proc EXCEPT ![p] = IdleThread]
    /\ UNCHANGED lookup
    /\ StoreUntouched

RegistryNext ==
    \E p \in Procs :
        \/ \E op \in RegistryOps, query \in RegistryQueries : RegistryCall(p, op, query)
        \/ BuildCheck(p)
        \/ BuildKeyCheck(p)
        \/ BuildKeyAssign(p)
        \/ BuildAdd(p)
        \/ BuildDetail(p)
        \/ RegistryReturn(p)

RegistrySpec == RegistryInit /\ [][RegistryNext]_vars

----------------------------------------------------------------------------
(* read_tools.get_audit_timeline *)

\* The size of the event log, the values of created_at and the limits of
\* the runs.
MaxEvents == 3
MaxTime == 2
MaxLimit == 3

TimelineEntityTypes == {"package", "task"}

TimelineEntityIds == {1, 2}

\* An event row with the created_at the server gave it.
StampedEvent(entity_type, entity_id, created_at) ==
    [event_type |-> "email_ingested", entity_type |-> entity_type,
     entity_id |-> entity_id, created_at |-> created_at]

\* The filter of a timeline ignoring the kind of the entity.
TimelineFilterAnyType(entity_type, entity_id) ==
    {e \in DOMAIN events : events[e].entity_id = entity_id}

\* Lines 88-89: the rows of the entity.
TimelineFilter(entity_type, entity_id) ==
    {e \in DOMAIN events :
        events[e].entity_type = entity_type /\ events[e].entity_id = entity_id}

\* Lines 90-92, ORDER BY created_at DESC LIMIT limit: every order of rows
\* the database may return; rows of equal created_at come in any order.
OrderByCreatedDescLimit(rows, limit) ==
    LET n == IF Cardinality(rows) < limit THEN Cardinality(rows) ELSE limit
    IN {r \in [1..n -> rows] :
           /\ \A i, j \in 1..n : i < j =>
                  /\ r[i] # r[j]
                  /\ events[r[i]].created_at >= events[r[j]].created_at
           /\ \A e \in rows \ {r[i] : i \in 1..n} :
                  \A i \in 1..n : events[e].created_at <= events[r[i]].created_at}

\* Lines 95-106: the dict made of a row.
TimelineEntry(e) ==
    [id |-> e, event_type |-> events[e].event_type,
     entity_type |-> events[e].entity_type, entity_id |-> events[e].entity_id,
     created_at |-> events[e].created_at]

\* An event log of any content, and one timeline call on it.
TimelineInit ==
    /\ \E n \in 0..MaxEvents :
          events \in [1..n -> {StampedEvent(entity_type, entity_id, created_at) :
                                  entity_type \in TimelineEntityTypes,
                                  entity_id \in TimelineEntityIds,
                                  created_at \in 1..MaxTime}]
    /\ \E entity_type \in TimelineEntityTypes, entity_id \in TimelineEntityIds,
          limit \in 0..MaxLimit :
          calls = <<[op |-> "get_audit_timeline", entity_type |-> entity_type,
                     entity_id |-> entity_id, limit |-> limit,
                     state |-> "running", result |-> <<>>]>>
    /\ packages = [i \in PackageIds |->
                     [k \in AttrKeys |-> IF k = "status" THEN "draft" ELSE Absent]]
    /\ approvals = <<>>
    /\ tasks = <<>>
    /\ idempotency_logs = {}
    /\ service_modes = <<>>
    /\ proc = [p \in Procs |-> IdleProc]
    /\ lookup = BuiltLookup

get_audit_timeline ==
    /\ calls[1].state = "running"
    /\ \E rows \in OrderByCreatedDescLimit(
                      TimelineFilter(calls[1].entity_type, calls[1].entity_id),
                      calls[1].limit) :
          calls' = <<[calls[1] EXCEPT
                        !.state = "returned",
                        !.result = [i \in DOMAIN rows |-> TimelineEntry(rows[i])]]>>
    /\ UNCHANGED <<packages, approvals, events, tasks, idempotency_logs,
                   service_modes, proc, lookup>>

TimelineNext == get_audit_timeline

TimelineSpec == TimelineInit /\ [][TimelineNext]_vars

----------------------------------------------------------------------------
(* worker.check_overdue_tasks: runs of the scheduled job, which may overlap, *)
(* die, and be run again.                                                   *)

\* The runs of the job.
MaxRuns == 3

WorkerTaskIds == {1, 2}

\* f"escalate-task-{task_id}"
EscalationKey(task_id) == IF task_id = 1 THEN "escalate-task-1" ELSE "escalate-task-2"

IdleWorker ==
    [pc |-> "idle", call |-> 0, overdue |-> <<>>, index |-> 0,
     pending_rollback |-> FALSE, escalated_count |-> 0]

\* read_tools.list_overdue_tasks: the ids of the overdue tasks that are not
\* completed, by due date (task 1 is due before task 2).
list_overdue_tasks ==
    LET late(t) == t \in DOMAIN tasks /\ tasks[t].overdue /\ tasks[t].status # "completed"
    IN (IF late(1) THEN <<1>> ELSE <<>>) \o (IF late(2) THEN <<2>> ELSE <<>>)

\* Two tasks, each overdue or not.
WorkerInit ==
    /\ \E late \in [WorkerTaskIds -> BOOLEAN] :
          tasks = [t \in WorkerTaskIds |->
                     [package_id |-> 1, title |-> "Task 1", status |-> "pending",
                      overdue |-> late[t]]]
    /\ events = <<>>
    /\ idempotency_logs = {}
    /\ proc = [p \in Procs |-> IdleWorker]
    /\ calls = <<>>
    /\ packages = [i \in PackageIds |->
                     [k \in AttrKeys |-> IF k = "status" THEN "draft" ELSE Absent]]
    /\ approvals = <<>>
    /\ service_modes = <<>>
    /\ lookup = BuiltLookup

WorkerUnchanged == UNCHANGED <<packages, approvals, tasks, service_modes, lookup>>

\* The task the run is at.
WorkerTask(p) == proc[p].overdue[proc[p].index]

\* The run leaves the job: by return, by self.retry, or by dying.
WorkerFinish(p, state) ==
    /\ calls' = [calls EXCEPT ![proc[p].call] =
                    [@ EXCEPT !.state = state,
                              !.overdue_count = Len(proc[p].overdue),
                              !.escalated_count = proc[p].escalated_count]]
    /\ proc' = [proc EXCEPT ![p] = IdleWorker]

\* Lines 75-85: a run starts with a session of its own and lists the
\* overdue tasks.
WorkerBegin(p) ==
    /\ proc[p].pc = "idle" /\ Len(calls) < MaxRuns
    /\ calls' = Append(calls, [op |-> "check_overdue_tasks", proc |-> p,
                               state |-> "running", overdue_count |-> 0,
                               escalated_count |-> 0])
    /\ proc' = [proc EXCEPT ![p] = [IdleWorker EXCEPT !.pc = "wk_check",
                                                      !.call = Len(calls) + 1,
                                                      !.overdue = list_overdue_tasks,
                                                      !.index = 1]]
    /\ UNCHANGED <<events, idempotency_logs>>
    /\ WorkerUnchanged

\* Lines 96-108 and 136-148: the loop head and the worker's own idempotency
\* check.  A session whose last commit failed and was not rolled back
\* raises PendingRollbackError on its next query, outside the inner try,
\* and the job ends in self.retry.
WorkerCheck(p) ==
    /\ proc[p].pc = "wk_check"
    /\ IF proc[p].index > Len(proc[p].overdue)
       THEN WorkerFinish(p, "returned")
       ELSE IF proc[p].pending_rollback
       THEN WorkerFinish(p, "raised")
       ELSE /\ proc' = [proc EXCEPT
                          ![p].pc = IF check_idempotency(EscalationKey(WorkerTask(p)))
                                    THEN "wk_append" ELSE "wk_check",
                          ![p].index = IF check_idempotency(EscalationKey(WorkerTask(p)))
                                       THEN @ ELSE @ + 1]
            /\ UNCHANGED calls
    /\ UNCHANGED <<events, idempotency_logs>>
    /\ WorkerUnchanged

\* write_tools.append_event lines 44-50: its own idempotency check, which
\* hands back the stored result where there is one.
WorkerAppendCheck(p) ==
    /\ proc[p].pc = "wk_append"
    /\ proc' = IF check_idempotency(EscalationKey(WorkerTask(p)))
               THEN [proc EXCEPT ![p].pc = "wk_commit"]
               ELSE [proc EXCEPT ![p].pc = "wk_check",
                                 ![p].index = @ + 1,
                                 ![p].escalated_count = @ + 1]
    /\ UNCHANGED <<events, idempotency_logs, calls>>
    /\ WorkerUnchanged

\* write_tools.append_event lines 52-64: the commit of the TASK_ESCALATED
\* event.  Its IntegrityError is caught by the worker (line 131), which
\* goes on to the next task with the session as the failed commit left it.
WorkerAppendCommit(p) ==
    /\ proc[p].pc = "wk_commit"
    /\ LET event == NewEvent("task_escalated", "task", WorkerTask(p), 0,
                             "overdue", 0, p, EscalationKey(WorkerTask(p)))
       IN IF EventKeysUnique(<<event>>)
          THEN /\ events' = Append(events, event)
               /\ proc' = [proc EXCEPT ![p].pc = "wk_store"]
          ELSE /\ proc' = [proc EXCEPT ![p].pc = "wk_check",
                                       ![p].index = @ + 1,
                                       ![p].pending_rollback = TRUE]
               /\ UNCHANGED events
    /\ UNCHANGED <<idempotency_logs, calls>>
    /\ WorkerUnchanged

\* write_tools.append_event lines 66-76.
WorkerAppendStore(p) ==
    /\ proc[p].pc = "wk_store"
    /\ idempotency_logs' =
          store_idempotent_result(EscalationKey(WorkerTask(p)), "append_event:task",
                                  Ok(0, 0, "task_escalated", EscalationKey(WorkerTask(p)), 0))
    /\ proc' = [proc EXCEPT ![p].pc = "wk_check",
                            ![p].index = @ + 1,
                            ![p].escalated_count = @ + 1]
    /\ UNCHANGED <<events, calls>>
    /\ WorkerUnchanged

\* The worker process dies in the middle of a run.
WorkerCrash(p) ==
    /\ proc[p].pc # "idle"
    /\ WorkerFinish(p, "crashed")
    /\ UNCHANGED <<events, idempotency_logs>>
    /\ WorkerUnchanged

WorkerNext ==
    \E p \in Procs :
        \/ WorkerBegin(p)
        \/ WorkerCheck(p)
        \/ WorkerAppendCheck(p)
        \/ WorkerAppendCommit(p)
        \/ WorkerAppendStore(p)
        \/ WorkerCrash(p)

WorkerSpec == WorkerInit /\ [][WorkerNext]_vars

----------------------------------------------------------------------------
(* validator.validate_patch *)

NoDecision == "None"

\* A test that takes only None for a missing status.
TruthyIsNotNone(value) == value # Absent

\* Python truth of a status value: None (or a missing key) and "" are false.
Truthy(value) == value \notin {Absent, ""}

\* `needle in reason`: the words of needle occur, in a row, in the text.
Contains(reason, needle) ==
    \/ \E i \in 1..(Len(reason.words) - Len(needle) + 1) :
          SubSeq(reason.words, i, i + Len(needle) - 1) = needle
    \/ Len(needle) = 1 /\ needle[1] \in reason.names

ValidationResult(is_allowed, requires_approval, requires_escalation, decision_type, reasons, warnings) ==
    [is_allowed |-> is_allowed, requires_approval |-> requires_approval,
     requires_escalation |-> requires_escalation, decision_type |-> decision_type,
     reasons |-> reasons, warnings |-> warnings]

\* Lines 78-90 and 100-112: the result of the short circuit.
InvalidTransition(current_status, new_status, valid_next) ==
    ValidationResult(FALSE, FALSE, FALSE, NoDecision,
        <<Reason(<<"Invalid", "status", "transition:", current_status, "->",
                   new_status, "Valid", "next", "statuses:">>, valid_next)>>,
        <<>>)

\* A derivation that looks at the fields in the opposite order.
DerivedActionScopeFirst(entity_type, patch) ==
    IF "scope" \in patch.fields THEN <<entity_type, "scope", "change">>
    ELSE IF "budget" \in patch.fields THEN <<entity_type, "budget", "change">>
    ELSE IF "metadata" \in patch.fields THEN <<entity_type, "metadata", "update">>
    ELSE IF Truthy(patch.status) THEN <<entity_type, "status", patch.status>>
    ELSE <<>>

\* Lines 117-124: the one action a patch stands for.
DerivedAction(entity_type, patch) ==
    IF Truthy(patch.status) THEN <<entity_type, "status", patch.status>>
    ELSE IF "metadata" \in patch.fields THEN <<entity_type, "metadata", "update">>
    ELSE IF "budget" \in patch.fields THEN <<entity_type, "budget", "change">>
    ELSE IF "scope" \in patch.fields THEN <<entity_type, "scope", "change">>
    ELSE NoAction

\* Lines 114-165: the role check, the risk check and the final verdict, for
\* a call the transition check let through.
ValidateRolesAndRisk(entity_type, current_status, patch, user_roles, impact, uncertainty) ==
    LET new_status == patch.status
        by_rule == /\ Truthy(new_status) /\ Truthy(current_status)
                   /\ entity_type = "package"
                   /\ PackageRuleRequiresApproval(current_status, new_status)
        action == DerivedAction(entity_type, patch)
        denied == /\ action # NoAction
                  /\ ~is_action_approved(action, user_roles).is_approved
        has_decision == HasDecision(impact, uncertainty)
        decision_type ==
            IF has_decision THEN RiskMatrix(impact, uncertainty).decision_type
            ELSE "auto"
        reasons ==
            (IF by_rule
             THEN <<Reason(<<"Transition", current_status, "->", new_status,
                             "requires", "approval">>, {})>>
             ELSE <<>>)
            \o (IF denied
                THEN <<is_action_approved(action, user_roles).reason>>
                ELSE <<>>)
            \o (IF decision_type # "auto"
                THEN <<Reason(<<"Risk", "assessment", impact, uncertainty>>
                                 \o RiskMatrix(impact, uncertainty).description, {})>>
                ELSE <<>>)
        warnings ==
            IF has_decision /\ RiskMatrix(impact, uncertainty).notification_required
            THEN <<"Notification required for stakeholders">>
            ELSE <<>>
        blocking == {i \in DOMAIN reasons :
                        \/ Contains(reasons[i], <<"Invalid">>)
                        \/ Contains(reasons[i], <<"requires", "roles">>)}
    IN ValidationResult(blocking = {},
                        \/ by_rule \/ denied
                        \/ has_decision /\ risk_requires_approval(impact, uncertainty),
                        has_decision /\ risk_requires_escalation(impact, uncertainty),
                        decision_type, reasons, warnings)

\* Lines 72-112: the call returns from the transition check.
ShortCircuits(entity_type, current_status, patch) ==
    /\ Truthy(patch.status) /\ Truthy(current_status)
    /\ \/ entity_type = "package" /\ ~PackageIsValid(current_status, patch.status)
       \/ entity_type = "task" /\ ~TaskIsValid(current_status, patch.status)

\* Line 136: the ValueError of get_decision leaves validate_patch uncaught.
validate_patch_raises(entity_type, current_status, patch, impact, uncertainty) ==
    /\ ~ShortCircuits(entity_type, current_status, patch)
    /\ get_decision_raises(impact, uncertainty)

validate_patch(entity_type, current_status, patch, user_roles, impact, uncertainty) ==
    LET new_status == patch.status
    IN IF /\ Truthy(new_status) /\ Truthy(current_status)
          /\ entity_type = "package"
          /\ ~PackageIsValid(current_status, new_status)
       THEN InvalidTransition(current_status, new_status, PackageValidNext(current_status))
       ELSE IF /\ Truthy(new_status) /\ Truthy(current_status)
               /\ entity_type = "task"
               /\ ~TaskIsValid(current_status, new_status)
       THEN InvalidTransition(current_status, new_status, TaskValidNext(current_status))
       ELSE ValidateRolesAndRisk(entity_type, current_status, patch,
                                 user_roles, impact, uncertainty)

\* The inputs of one call.
EntityTypes == {"package", "task"}

StatusesOf(entity_type) ==
    IF entity_type = "package" THEN PackageStatuses ELSE TaskStatuses

PatchFields ==
    {{}, {"metadata"}, {"budget", "scope"}, {"scope"}, {"metadata", "budget", "scope"}}

\* What a caller may pass as impact or uncertainty: a value of the enum, a
\* string that is none of its values, or None.
LevelInputs == Levels \cup {"severe", Absent}

NoValidation == ValidationResult(FALSE, FALSE, FALSE, NoDecision, <<>>, <<>>)

ValidationCall(entity_type, current_status, patch, user_roles, impact, uncertainty) ==
    [op |-> "validate_patch", entity_type |-> entity_type,
     current_status |-> current_status, patch |-> patch, roles |-> user_roles,
     impact |-> impact, uncertainty |-> uncertainty,
     state |-> "running", result |-> NoValidation]

\* One call of validate_patch on inputs of the caller's choice; the store is
\* not touched.
ValidatorInit ==
    /\ \E entity_type \in EntityTypes, user_roles \in SUBSET Roles,
          impact \in LevelInputs, uncertainty \in LevelInputs, fields \in PatchFields :
          \E current_status \in StatusesOf(entity_type) \cup {Absent, "", "unknown"},
             new_status \in StatusesOf(entity_type) \cup {Absent} :
             calls = <<ValidationCall(entity_type, current_status,
                                      [status |-> new_status, fields |-> fields],
                                      user_roles, impact, uncertainty)>>
    /\ packages = [i \in PackageIds |->
                     [k \in AttrKeys |-> IF k = "status" THEN "draft" ELSE Absent]]
    /\ approvals = <<>>
    /\ events = <<>>
    /\ tasks = <<>>
    /\ idempotency_logs = {}
    /\ service_modes = <<>>
    /\ lookup = BuiltLookup
    /\ proc = [p \in Procs |-> IdleProc]

ValidatePatch ==
    /\ calls[1].state = "running"
    /\ calls' =
          IF validate_patch_raises(calls[1].entity_type, calls[1].current_status,
                                   calls[1].patch, calls[1].impact, calls[1].uncertainty)
          THEN <<[calls[1] EXCEPT !.state = "raised"]>>
          ELSE <<[calls[1] EXCEPT
                     !.state = "returned",
                     !.result = validate_patch(calls[1].entity_type,
                                               calls[1].current_status, calls[1].patch,
                                               calls[1].roles, calls[1].impact,
                                               calls[1].uncertainty)]>>
    /\ UNCHANGED <<lookup, packages, approvals, events, tasks, idempotency_logs,
                   service_modes, proc>>

ValidatorNext == ValidatePatch

ValidatorSpec == ValidatorInit /\ [][ValidatorNext]_vars

----------------------------------------------------------------------------
(* What the claims read off a state *)

Finished(i) == calls[i].state \in {"returned", "raised"}

IsDecide(i) == calls[i].op = "approve_proposal"

DecidedEvents(a) ==
    {e \in DOMAIN events : /\ events[e].event_type = "approval_decided"
                           /\ events[e].entity_id = a}

PatchedEvents(a) ==
    {e \in DOMAIN events : /\ events[e].event_type = "package_patched"
                           /\ events[e].approval_id = a}

EventsWithKey(key) == {e \in DOMAIN events : events[e].idempotency_key = key}

HoldsPatch(a) ==
    \A k \in AttrKeys :
        PatchOf(approvals[a].patch_json)[k] # Absent
            => packages[approvals[a].package_id][k] = PatchOf(approvals[a].patch_json)[k]

\* The propose call that created approval a has returned before call i began.
ProposedBefore(a, i) ==
    \E j \in 1..(i - 1) : /\ calls[j].op = "propose_package_patch"
                          /\ calls[j].state = "returned"
                          /\ calls[j].result.id = a

----------------------------------------------------------------------------
(* C1: of two decide calls with distinct idempotency keys on one pending   *)
(* Approval at most one succeeds, and at most one APPROVAL_DECIDED event   *)
(* and one PACKAGE_PATCHED event exist for the Approval.                    *)
C1_OneDeciderWins ==
    /\ \A a \in DOMAIN approvals :
          /\ Cardinality(DecidedEvents(a)) <= 1
          /\ Cardinality(PatchedEvents(a)) <= 1
    /\ \A i, j \in DOMAIN calls :
          ( /\ i # j
            /\ IsDecide(i) /\ IsDecide(j)
            /\ calls[i].target = calls[j].target
            /\ calls[i].key # calls[j].key
            /\ calls[i].state = "returned" /\ calls[i].result.id = calls[i].target )
          => ~( calls[j].state = "returned" /\ calls[j].result.id = calls[j].target )

(* C2: decide with 'approved' and one key K, called any number of times in *)
(* sequence on a pending Approval, returns the same successful result each *)
(* time and leaves the Approval approved, the patch in the package, one    *)
(* APPROVAL_DECIDED event and one PACKAGE_PATCHED event.                    *)
C2_ApprovedRetriesIdempotent ==
    \A a \in DOMAIN approvals : \A k \in Keys :
        LET cs == {i \in DOMAIN calls : /\ IsDecide(i) /\ Finished(i)
                                        /\ calls[i].target = a
                                        /\ calls[i].key = k
                                        /\ calls[i].arg = "approved"}
        IN ( /\ cs # {}
             /\ \A i \in DOMAIN calls : IsDecide(i) => i \in cs
             /\ \A i \in cs : ProposedBefore(a, i) )
           => /\ \A i \in cs : /\ calls[i].state = "returned"
                               /\ calls[i].result = Ok(a, 0, "approved", "approved", 0)
              /\ approvals[a].status = "approved"
              /\ HoldsPatch(a)
              /\ Cardinality(DecidedEvents(a)) = 1
              /\ Cardinality(PatchedEvents(a)) = 1

(* C3: once an Approval is APPROVED or REJECTED no step of a sequence of    *)
(* propose and decide calls changes it again, and a decide attempt that     *)
(* reaches it with a key that passed the idempotency check raises the       *)
(* conflict error naming its status and leaves approvals, packages and      *)
(* events as they were.                                                     *)
C3_DecidedIsTerminal ==
    [][ \A a \in DOMAIN approvals :
          approvals[a].status # "pending" =>
            /\ approvals'[a] = approvals[a]
            /\ \A p \in Procs :
                 ( /\ proc[p].pc = "ap_load"
                   /\ Me(p).target = a
                   /\ proc'[p] # proc[p] )
                 => /\ calls'[proc[p].call].state = "raised"
                    /\ calls'[proc[p].call].result =
                          Raised("ValueError", approvals[a].status)
                    /\ approvals' = approvals
                    /\ packages' = packages
                    /\ events' = events ]_vars

\* A second decide, under a fresh key, has hit the conflict on a rejected approval.
C3_Witness ==
    \E i \in DOMAIN calls :
        /\ IsDecide(i)
        /\ calls[i].state = "raised"
        /\ calls[i].result = Raised("ValueError", "rejected")
        /\ calls[i].target \in DOMAIN approvals
        /\ approvals[calls[i].target].status = "rejected"
        /\ Cardinality(DecidedEvents(calls[i].target)) = 1

C5_DecideIsAtomic ==
    /\ \A a \in DOMAIN approvals :
          (approvals[a].status = "approved")
              <=> (HoldsPatch(a) /\ PatchedEvents(a) # {} /\ DecidedEvents(a) # {})
    /\ \A k \in Keys :
          (\E l \in idempotency_logs : /\ l.idempotency_key = k
                                       /\ l.operation = "approve_proposal")
              <=> (\E e \in EventsWithKey(k) : events[e].event_type = "approval_decided")

(* C6: when a decide call with key K committed its decision and stopped    *)
(* before the result was stored, a retry of the same call with K returns    *)
(* the result of that decision, and K still names one decision only.        *)
C6_RetryAfterCrashReturnsOriginal ==
    \A i, j \in DOMAIN calls :
        ( /\ i < j
          /\ IsDecide(i) /\ IsDecide(j)
          /\ calls[i].state = "crashed"
          /\ calls[j].key = calls[i].key
          /\ calls[j].target = calls[i].target
          /\ calls[j].arg = calls[i].arg
          /\ Finished(j)
          /\ \E e \in DecidedEvents(calls[i].target) :
                events[e].idempotency_key = calls[i].key )
        => /\ calls[j].state = "returned"
           /\ calls[j].result = Ok(calls[i].target, 0, calls[i].arg, calls[i].arg, 0)
           /\ Cardinality(DecidedEvents(calls[i].target)
                            \cap EventsWithKey(calls[i].key)) = 1

(* C7: when writers race to store a result under one key, one record is    *)
(* kept, no writer raises, and every writer returns the stored result.      *)
C7_StoreRaceReturnsWinner ==
    /\ \A k \in Keys :
          Cardinality({l \in idempotency_logs : l.idempotency_key = k}) <= 1
    /\ \A i \in DOMAIN calls :
          ( /\ calls[i].op = "toggle_service_mode"
            /\ Finished(i)
            /\ \A j \in DOMAIN calls :
                  calls[j].key = calls[i].key => calls[j].op = "toggle_service_mode" )
          => /\ calls[i].state = "returned"
             /\ HasLog(calls[i].key)
             /\ calls[i].result = get_idempotent_result(calls[i].key)

\* The create_task calls on an existing package made under key k.
CreateCalls(k) ==
    {i \in DOMAIN calls : /\ calls[i].op = "create_task"
                          /\ calls[i].key = k
                          /\ calls[i].target \in PackageIds}

TasksUnderKey(k) == {events[e].entity_id : e \in EventsWithKey(k)}

(* C8: create_task calls that share a key, none of which stopped halfway,  *)
(* all return, with the same result, and leave one Task and one             *)
(* TASK_CREATED event, however their steps interleave.                      *)
C8_ConcurrentCreateTaskOnce ==
    \A k \in Keys :
        ( /\ CreateCalls(k) # {}
          /\ \A i \in DOMAIN calls : calls[i].key = k => i \in CreateCalls(k)
          /\ \A i \in CreateCalls(k) : Finished(i) )
        => /\ \A i \in CreateCalls(k) : calls[i].state = "returned"
           /\ \A i, j \in CreateCalls(k) : calls[i].result = calls[j].result
           /\ Cardinality(EventsWithKey(k)) = 1
           /\ Cardinality(TasksUnderKey(k)) = 1

(* C9: after a sequence of create_task calls on an existing package that   *)
(* share a key, one Task and one TASK_CREATED event exist for the key, the  *)
(* Task has the first call's title, and every call has returned the first   *)
(* call's result.                                                           *)
C9_CreateTaskIdempotent ==
    /\ Len(tasks) = Cardinality({e \in DOMAIN events :
                                    events[e].event_type = "task_created"})
    /\ \A k \in Keys :
          LET cs == {i \in CreateCalls(k) : Finished(i)}
              first == CHOOSE i \in cs : \A j \in cs : i <= j
          IN ( /\ cs # {}
               /\ \A i \in DOMAIN calls :
                     calls[i].key = k => calls[i].op = "create_task" )
             => /\ Cardinality(EventsWithKey(k)) = 1
                /\ \A e \in EventsWithKey(k) : events[e].event_type = "task_created"
                /\ Cardinality(TasksUnderKey(k)) = 1
                /\ \A t \in TasksUnderKey(k) : tasks[t].title = calls[first].arg
                /\ \A i \in cs :
                      /\ calls[i].state = "returned"
                      /\ calls[i].result = calls[first].result
                      /\ calls[i].result.kind = "ok"
                      /\ calls[i].result.id \in TasksUnderKey(k)
                      /\ calls[i].result.detail = calls[first].arg

\* Two calls under one key with different titles have returned; one task exists.
C9_Witness ==
    \E i, j \in DOMAIN calls :
        /\ i < j
        /\ i \in CreateCalls(calls[i].key) /\ j \in CreateCalls(calls[i].key)
        /\ calls[i].arg # calls[j].arg
        /\ calls[i].state = "returned" /\ calls[j].state = "returned"
        /\ Len(tasks) = 1

(* C10: after a sequence of append_event calls that share a key, one Event *)
(* carries the key, with the first call's payload, and every call has       *)
(* returned that event's id; a call without a key raises and no event       *)
(* without a key is ever in the log.                                        *)
C10_AppendEventIdempotent ==
    /\ \A i \in DOMAIN calls :
          (calls[i].op = "append_event" /\ calls[i].key = NoKey)
          => /\ calls[i].state = "raised"
             /\ calls[i].result = Raised("ValueError", "key required")
    /\ Len(events) = Cardinality({k \in Keys : EventsWithKey(k) # {}})
    /\ \A k \in Keys :
          LET cs == {i \in DOMAIN calls : /\ calls[i].op = "append_event"
                                          /\ calls[i].key = k
                                          /\ Finished(i)}
              first == CHOOSE i \in cs : \A j \in cs : i <= j
          IN ( /\ cs # {}
               /\ \A i \in DOMAIN calls :
                     calls[i].key = k => calls[i].op = "append_event" )
             => /\ Cardinality(EventsWithKey(k)) = 1
                /\ \A e \in EventsWithKey(k) :
                      /\ events[e].payload = calls[first].arg
                      /\ \A i \in cs : /\ calls[i].state = "returned"
                                       /\ calls[i].result.kind = "ok"
                                       /\ calls[i].result.event_id = e
                                       /\ calls[i].result = calls[first].result

\* Two calls under one key with different payloads have returned, and a call
\* without a key has raised.
C10_Witness ==
    /\ \E i, j \in DOMAIN calls :
          /\ i < j
          /\ calls[i].op = "append_event" /\ calls[j].op = "append_event"
          /\ calls[i].key = calls[j].key
          /\ calls[i].key # NoKey
          /\ calls[i].arg # calls[j].arg
          /\ calls[i].state = "returned" /\ calls[j].state = "returned"
    /\ \E n \in DOMAIN calls :
          /\ calls[n].op = "append_event"
          /\ calls[n].key = NoKey
          /\ calls[n].state = "raised"

(* C11: the event log is append-only: no step of append_event, create_task, *)
(* propose or decide, whether the call succeeds, fails or is a replay,      *)
(* removes an event or changes a field of an event already in the log.      *)
C11_EventLogAppendOnly ==
    [][ /\ Len(events') >= Len(events)
        /\ \A e \in DOMAIN events : events'[e] = events[e] ]_vars

\* The log still holds its event after a failed call and a replayed call.
C11_Witness ==
    /\ Len(events) >= 1
    /\ \E i \in DOMAIN calls : calls[i].state = "raised"
    /\ \E i, j \in DOMAIN calls :
          /\ i < j
          /\ calls[i].key = calls[j].key /\ calls[i].key # NoKey
          /\ calls[i].state = "returned" /\ calls[j].state = "returned"
          /\ calls[j].result = calls[i].result

FirstDecide(i) ==
    /\ IsDecide(i)
    /\ ProposedBefore(calls[i].target, i)
    /\ \A j \in 1..(i - 1) :
          /\ calls[j].key # calls[i].key
          /\ IsDecide(j) => calls[j].target # calls[i].target

\* The attribute map package 1 starts with.
PackageAtStart == [k \in AttrKeys |-> IF k = "status" THEN "draft" ELSE Absent]

(* C13: a decide call with decision 'approved' and a fresh key on a pending *)
(* Approval returns, leaves the Approval APPROVED and has appended exactly   *)
(* two events: a PACKAGE_PATCHED event that references the approval and an   *)
(* APPROVAL_DECIDED event.                                                   *)
C13_ApprovedDecideSucceeds ==
    \A i \in DOMAIN calls :
        (FirstDecide(i) /\ Finished(i) /\ calls[i].arg = "approved")
        => /\ calls[i].state = "returned"
           /\ approvals[calls[i].target].status = "approved"
           /\ Cardinality(EventsWithKey(calls[i].key)) = 2
           /\ Cardinality(PatchedEvents(calls[i].target)) = 1
           /\ Cardinality(DecidedEvents(calls[i].target)) = 1

(* C14: a decide call with decision 'rejected' that finds its Approval       *)
(* pending goes on to commit, and its commit sets the Approval to REJECTED,  *)
(* appends one APPROVAL_DECIDED event and nothing else, and leaves the       *)
(* package's attribute map as it was.                                        *)
C14_RejectLeavesPackage ==
    [][ \A p \in Procs :
          LET a == Me(p).target
          IN /\ ( /\ proc[p].pc = "ap_load"
                  /\ proc'[p] # proc[p]
                  /\ Me(p).arg = "rejected"
                  /\ a \in DOMAIN approvals
                  /\ approvals[a].status = "pending" )
                => proc'[p].pc = "ap_commit"
             /\ ( /\ proc[p].pc = "ap_commit"
                  /\ proc'[p] # proc[p]
                  /\ Me(p).arg = "rejected" )
                => /\ proc'[p].pc = "ap_store"
                   /\ proc'[p].result = Ok(a, 0, "rejected", "rejected", 0)
                   /\ approvals'[a].status = "rejected"
                   /\ Len(events') = Len(events) + 1
                   /\ events'[Len(events')].event_type = "approval_decided"
                   /\ events'[Len(events')].entity_id = a
                   /\ SubSeq(events', 1, Len(events)) = events
                   /\ packages' = packages ]_vars

\* A reject has returned: the approval is rejected, one decision event and no
\* patch event exist for it, and the package is as it started.
C14_Witness ==
    \E i \in DOMAIN calls :
        /\ IsDecide(i)
        /\ calls[i].arg = "rejected"
        /\ calls[i].state = "returned"
        /\ calls[i].result = Ok(calls[i].target, 0, "rejected", "rejected", 0)
        /\ approvals[calls[i].target].status = "rejected"
        /\ Cardinality(DecidedEvents(calls[i].target)) = 1
        /\ PatchedEvents(calls[i].target) = {}
        /\ packages[approvals[calls[i].target].package_id] = PackageAtStart

(* C15: after a decide call with decision 'approved' on a pending Approval   *)
(* the package's attribute map is the shallow merge: every key of the patch  *)
(* maps to the patch's value and every other key keeps its previous value.   *)
C15_PatchMergedShallowly ==
    \A i \in DOMAIN calls :
        ( /\ FirstDecide(i) /\ Finished(i) /\ calls[i].arg = "approved"
          /\ \A j \in DOMAIN calls : IsDecide(j) => j = i )
        => LET approval == approvals[calls[i].target]
               patch == PatchOf(approval.patch_json)
           IN \A k \in AttrKeys :
                 packages[approval.package_id][k] =
                     IF patch[k] # Absent THEN patch[k] ELSE PackageAtStart[k]

NotFound == Raised("ValueError", "not found")

\* Call i names a package or an approval the store does not hold.
TargetMissing(i) ==
    \/ /\ calls[i].op \in {"create_task", "propose_package_patch"}
       /\ calls[i].target \notin DOMAIN packages
    \/ /\ IsDecide(i)
       /\ calls[i].target \notin DOMAIN approvals

(* C16 as stated: every create_task and propose call for a package that     *)
(* does not exist, and every decide call for an approval that does not       *)
(* exist, raises the not-found error.                                        *)
C16_MissingEntityAlwaysRaises ==
    \A i \in DOMAIN calls :
        (Finished(i) /\ TargetMissing(i))
            => (calls[i].state = "raised" /\ calls[i].result = NotFound)

(* C16 amended: a create_task or decide call whose idempotency key has no   *)
(* stored result, and every propose call, that names a missing package or    *)
(* approval raises the not-found error, and no step of such a call changes   *)
(* packages, approvals, events, tasks or idempotency records.                *)
C16_MissingEntityAbortsCleanly ==
    [][ LET tables == <<packages, approvals, events, tasks, idempotency_logs>>
            tables_after == <<packages', approvals', events', tasks', idempotency_logs'>>
            n == Len(calls')
        IN /\ ( /\ n = Len(calls) + 1
                /\ \/ /\ calls'[n].op = "create_task"
                      /\ check_idempotency(calls'[n].key)
                      /\ calls'[n].target \notin DOMAIN packages
                   \/ /\ calls'[n].op = "propose_package_patch"
                      /\ calls'[n].target \notin DOMAIN packages )
              => /\ calls'[n].state = "raised"
                 /\ calls'[n].result = NotFound
                 /\ tables_after = tables
           /\ \A p \in Procs :
                 ( /\ proc[p].pc = "ap_load"
                   /\ proc'[p] # proc[p]
                   /\ Me(p).target \notin DOMAIN approvals )
                 => /\ calls'[proc[p].call].state = "raised"
                    /\ calls'[proc[p].call].result = NotFound
                    /\ tables_after = tables ]_vars

\* create_task, propose and decide have each raised not-found, and the store
\* is as it started.
C16_Witness ==
    /\ \A op \in {"create_task", "propose_package_patch", "approve_proposal"} :
          \E i \in DOMAIN calls : /\ calls[i].op = op
                                  /\ calls[i].state = "raised"
                                  /\ calls[i].result = NotFound
    /\ approvals = <<>> /\ events = <<>> /\ tasks = <<>>
    /\ idempotency_logs = {}
    /\ \A id \in PackageIds : packages[id] = PackageAtStart

CreatedEvents(a) ==
    {e \in DOMAIN events : /\ events[e].event_type = "approval_created"
                           /\ events[e].entity_id = a}

(* C17: in every state, also one reached when a propose call stops between  *)
(* two of its steps, every Approval has exactly one APPROVAL_CREATED event   *)
(* whose entity_id is the approval's id.                                     *)
C17_ApprovalHasCreatedEvent ==
    \A a \in DOMAIN approvals : Cardinality(CreatedEvents(a)) = 1

(* C18: the package's attribute map changes only in the commit of a decide  *)
(* call whose decision is 'approved' for an Approval of that package; no     *)
(* step of propose, of a rejecting decide or of any other write changes it.  *)
C18_OnlyApprovedDecideChangesPackage ==
    [][ \A id \in PackageIds :
          packages'[id] # packages[id]
          => \E p \in Procs :
                /\ proc[p].pc = "ap_commit"
                /\ proc'[p].pc = "ap_store"
                /\ Me(p).arg = "approved"
                /\ approvals[Me(p).target].package_id = id ]_vars

\* A rejected and a pending approval exist for the package, whose attribute
\* map is as it started.
C18_Witness ==
    /\ \E a, b \in DOMAIN approvals :
          /\ approvals[a].status = "rejected"
          /\ approvals[b].status = "pending"
          /\ approvals[a].package_id = approvals[b].package_id
          /\ packages[approvals[a].package_id] = PackageAtStart
    /\ \A p \in Procs : proc[p].pc = "idle"

Validated == calls[1].state = "returned"

\* The call's statuses are both given and are not an edge of the graph of
\* the entity kind.
NotAnEdge ==
    /\ Truthy(calls[1].patch.status) /\ Truthy(calls[1].current_status)
    /\ \/ /\ calls[1].entity_type = "package"
          /\ <<calls[1].current_status, calls[1].patch.status>> \notin PackageRules
       \/ /\ calls[1].entity_type = "task"
          /\ <<calls[1].current_status, calls[1].patch.status>> \notin TaskRules

(* C19: for a current and a target status that are not an edge of the graph *)
(* of the entity kind, whatever the roles, impact and uncertainty,           *)
(* validate_patch returns is_allowed, requires_approval and                  *)
(* requires_escalation false, no decision type, no warnings and one reason,  *)
(* which names the edge and the valid next statuses of the current status.   *)
C19_InvalidTransitionShortCircuits ==
    (Validated /\ NotAnEdge)
    => LET result == calls[1].result
           valid_next == {t \in StatusesOf(calls[1].entity_type) :
                             <<calls[1].current_status, t>> \in
                                 (IF calls[1].entity_type = "package"
                                  THEN PackageRules ELSE TaskRules)}
       IN /\ ~result.is_allowed
          /\ ~result.requires_approval
          /\ ~result.requires_escalation
          /\ result.decision_type = NoDecision
          /\ result.warnings = <<>>
          /\ Len(result.reasons) = 1
          /\ Contains(result.reasons[1], <<"Invalid", "status", "transition:">>)
          /\ Contains(result.reasons[1],
                      <<calls[1].current_status, "->", calls[1].patch.status>>)
          /\ result.reasons[1].names = valid_next

\* A task edge that is not in the graph was refused although the caller is
\* an admin and the risk cell alone would escalate.
C19_Witness ==
    /\ Validated /\ NotAnEdge
    /\ calls[1].entity_type = "task"
    /\ calls[1].current_status = "pending" /\ calls[1].patch.status = "completed"
    /\ calls[1].roles = {"admin"}
    /\ calls[1].impact = "critical" /\ calls[1].uncertainty = "critical"
    /\ ~calls[1].result.is_allowed
    /\ calls[1].result.reasons[1].names = {"in_progress", "cancelled"}

(* C20: whenever the ApprovalMatrix denies the action derived from the      *)
(* patch, validate_patch returns is_allowed false, for every impact and      *)
(* uncertainty.                                                              *)
C20_RoleDenialBlocks ==
    ( /\ Validated
      /\ \E rule \in ApprovalRules :
            /\ rule.action = DerivedAction(calls[1].entity_type, calls[1].patch)
            /\ rule.required_roles \cap calls[1].roles = {} )
    => ~calls[1].result.is_allowed

\* The call is the award of an approved package.
AwardOfApproved ==
    /\ calls[1].entity_type = "package"
    /\ calls[1].current_status = "approved"
    /\ calls[1].patch.status = "awarded"

(* C21: validate_patch for an approved package, the patch {status: awarded}, *)
(* the roles {analyst}, impact high and uncertainty high returns is_allowed  *)
(* false, requires_approval true and requires_escalation false.             *)
C21_AnalystAwardHighRisk ==
    ( /\ Validated /\ AwardOfApproved
      /\ calls[1].roles = {"analyst"}
      /\ calls[1].impact = "high" /\ calls[1].uncertainty = "high" )
    => /\ ~calls[1].result.is_allowed
       /\ calls[1].result.requires_approval
       /\ ~calls[1].result.requires_escalation

\* The call returned from beyond the transition check.
PassedTransitionCheck == Validated /\ ~NotAnEdge

\* The decision type of the risk cell of the call, "none" where the matrix
\* has no cell for its impact and uncertainty.
RiskCellType ==
    IF calls[1].impact \in Levels /\ calls[1].uncertainty \in Levels
    THEN RiskMatrix(calls[1].impact, calls[1].uncertainty).decision_type
    ELSE "none"

\* The transition rule of the call declares requires_approval.
RuleDeclaresApproval ==
    /\ Truthy(calls[1].patch.status) /\ Truthy(calls[1].current_status)
    /\ calls[1].entity_type = "package"
    /\ <<calls[1].current_status, calls[1].patch.status>> \in PackageApprovalEdges

\* The ApprovalMatrix denies the action derived from the patch of the call.
MatrixDenies ==
    \E rule \in ApprovalRules :
        /\ rule.action = DerivedAction(calls[1].entity_type, calls[1].patch)
        /\ rule.required_roles \cap calls[1].roles = {}

RiskReasons ==
    {i \in DOMAIN calls[1].result.reasons :
        Contains(calls[1].result.reasons[i], <<"Risk", "assessment">>)}

C23_AdminAwardMediumRisk ==
    ( /\ Validated /\ AwardOfApproved
      /\ calls[1].roles = {"admin"}
      /\ calls[1].impact = "medium" /\ calls[1].uncertainty = "medium" )
    => /\ calls[1].result.is_allowed
       /\ ~calls[1].result.requires_approval

DecisionTypes ==
    {"auto", "confirm", "approval_required", "executive_approval", "escalate"}

\* The cells of the contract table, as <<impact, uncertainty, decision>>.
ContractTable ==
    { <<"low", "low", "auto">>, <<"low", "medium", "auto">>,
      <<"low", "high", "confirm">>,
      <<"medium", "low", "auto">>, <<"medium", "medium", "confirm">>,
      <<"medium", "high", "approval_required">>,
      <<"medium", "critical", "executive_approval">>,
      <<"high", "low", "approval_required">>,
      <<"high", "medium", "approval_required">>,
      <<"high", "high", "executive_approval">>,
      <<"high", "critical", "escalate">>,
      <<"critical", "low", "executive_approval">>,
      <<"critical", "medium", "executive_approval">>,
      <<"critical", "high", "escalate">>,
      <<"critical", "critical", "escalate">> }

\* The impact and uncertainty of the call are both levels.
WellFormedLevels == calls[1].impact \in Levels /\ calls[1].uncertainty \in Levels

C25_LowCriticalIsConfirm ==
    (calls[1].impact = "low" /\ calls[1].uncertainty = "critical")
    => /\ RiskMatrix(calls[1].impact, calls[1].uncertainty).decision_type = "confirm"
       /\ ~risk_requires_approval(calls[1].impact, calls[1].uncertainty)
       /\ (PassedTransitionCheck /\ ~RuleDeclaresApproval /\ ~MatrixDenies)
             => ~calls[1].result.requires_approval

(* C26: a validate_patch call with a malformed impact or uncertainty that    *)
(* reaches the risk check does not raise and does not default to AUTO: it    *)
(* returns a result with requires_approval and requires_escalation true.     *)
C26_MalformedLevelsFailClosed ==
    (calls[1].state # "running" /\ ~NotAnEdge /\ ~WellFormedLevels)
    => /\ calls[1].state = "returned"
       /\ calls[1].result.decision_type # "auto"
       /\ calls[1].result.requires_approval
       /\ calls[1].result.requires_escalation

\* The action derived from the patch of the call.
CallAction == DerivedAction(calls[1].entity_type, calls[1].patch)

\* No rule of the ApprovalMatrix is registered for the action of the call.
NoRuleForAction == \A rule \in ApprovalRules : rule.action # CallAction

\* The reasons of the result that are a denial by the ApprovalMatrix.
DenialReasons ==
    {i \in DOMAIN calls[1].result.reasons :
        Contains(calls[1].result.reasons[i], <<"requires", "one", "of:">>)}

RolesAlone ==
    /\ calls[1].state = "running"
    /\ calls[1].current_status = Absent
    /\ calls[1].patch = [status |-> Absent, fields |-> {}]

(* C28: for every action that has a registered rule and the role set of any  *)
(* caller, is_action_approved returns approved iff the caller's roles and    *)
(* the rule's required roles intersect, so the empty role set is denied and  *)
(* one qualifying role among several suffices; a validate_patch call that    *)
(* passes the transition check carries a denial reason iff they do not       *)
(* intersect.                                                                *)
C28_ApprovedIffRolesIntersect ==
    /\ RolesAlone
          => \A rule \in ApprovalRules :
                /\ is_action_approved(rule.action, calls[1].roles).is_approved
                      <=> (calls[1].roles \cap rule.required_roles # {})
                /\ ~is_action_approved(rule.action, {}).is_approved
    /\ \A rule \in ApprovalRules :
          (PassedTransitionCheck /\ rule.action = CallAction)
          => /\ (DenialReasons = {}) <=> (calls[1].roles \cap rule.required_roles # {})
             /\ \A i \in DenialReasons :
                   calls[1].result.reasons[i].names = rule.required_roles

\* An analyst who is also a viewer submitted a draft package: one
\* qualifying role of the two sufficed.
C28_Witness ==
    /\ PassedTransitionCheck
    /\ CallAction = <<"package", "status", "submitted">>
    /\ calls[1].current_status = "draft"
    /\ calls[1].roles = {"analyst", "viewer"}
    /\ DenialReasons = {}
    /\ is_action_approved(CallAction, calls[1].roles).is_approved
    /\ ~is_action_approved(CallAction, {"viewer"}).is_approved

(* C29: along any chain of valid transitions, a package in completed or      *)
(* cancelled moves only to archived, a package in archived stays there       *)
(* forever and has no valid next status, and a task in completed or          *)
(* cancelled does not move and has no valid next status.                     *)
C29_TerminalStatesAreTerminal ==
    [][ /\ packages[1].status \in {"completed", "cancelled"}
           => packages'[1].status \in {packages[1].status, "archived"}
        /\ packages[1].status = "archived"
           => /\ packages'[1].status = "archived"
              /\ \A i \in DOMAIN calls' :
                    calls'[i].entity_type = "package" => calls'[i].valid_next = {}
        /\ tasks[1].status \in {"completed", "cancelled"}
           => /\ tasks'[1].status = tasks[1].status
              /\ \A i \in DOMAIN calls' :
                    calls'[i].entity_type = "task" => calls'[i].valid_next = {} ]_vars

\* A completed package was archived.
C29_Witness ==
    /\ calls # <<>>
    /\ calls[1].entity_type = "package"
    /\ calls[1].from_status = "completed" /\ calls[1].to_status = "archived"
    /\ calls[1].is_valid
    /\ packages[1].status = "archived"
    /\ tasks[1].status = "completed"

\* The edges of the registry the last query went to.
QueriedRules == IF calls[1].entity_type = "package" THEN PackageRules ELSE TaskRules

(* C30: for both registries and all statuses from, to: is_valid(from, to)    *)
(* is true iff the edge (from, to) is in the rule list, iff get_rule(from,   *)
(* to) returns a rule, iff to is in get_valid_next_statuses(from); no status *)
(* has a transition to itself; an unknown from status gives is_valid false   *)
(* and an empty next-set, not an error.                                      *)
C30_RegistryLookupsAgree ==
    calls # <<>>
    => LET query == calls[1]
           edge == <<query.from_status, query.to_status>>
       IN /\ query.state = "returned"
          /\ query.is_valid <=> edge \in QueriedRules
          /\ query.is_valid <=> query.rule # {}
          /\ query.is_valid <=> query.to_status \in query.valid_next
          /\ \A rule \in query.rule :
                rule.from_status = query.from_status /\ rule.to_status = query.to_status
          /\ query.from_status = query.to_status => ~query.is_valid
          /\ query.from_status = UnknownStatus
                => ~query.is_valid /\ query.valid_next = {}

\* A package of unknown status was asked to become a draft: refused, with
\* an empty next-set, and the package left as it was.
C30_Witness ==
    /\ calls # <<>>
    /\ calls[1].entity_type = "package"
    /\ calls[1].from_status = UnknownStatus /\ calls[1].to_status = "draft"
    /\ ~calls[1].is_valid
    /\ calls[1].valid_next = {}
    /\ packages[1].status = UnknownStatus

\* The patch of the call cut down to its field of highest priority: the
\* status if it sets one, else metadata, else budget, else scope.
TopPriorityPatch ==
    LET patch == calls[1].patch
    IN IF Truthy(patch.status) THEN [status |-> patch.status, fields |-> {}]
       ELSE IF "metadata" \in patch.fields THEN [status |-> patch.status, fields |-> {"metadata"}]
       ELSE IF "budget" \in patch.fields THEN [status |-> patch.status, fields |-> {"budget"}]
       ELSE [status |-> patch.status, fields |-> patch.fields \cap {"scope"}]

(* C31: validate_patch derives one action per call in the priority order     *)
(* status-change, metadata-update, budget-change, scope-change: the result   *)
(* carries at most one role denial, and it is the result the call would      *)
(* have had with the lower-priority fields left out of the patch.            *)
C31_OneActionByPriority ==
    PassedTransitionCheck
    => /\ Cardinality(DenialReasons) <= 1
       /\ calls[1].result =
             validate_patch(calls[1].entity_type, calls[1].current_status,
                            TopPriorityPatch, calls[1].roles,
                            calls[1].impact, calls[1].uncertainty)

\* An analyst changed metadata, budget and scope of a package in one patch
\* and met no denial, although budget and scope each ask for an admin.
C31_Witness ==
    /\ PassedTransitionCheck
    /\ calls[1].entity_type = "package"
    /\ ~Truthy(calls[1].patch.status)
    /\ calls[1].patch.fields = {"metadata", "budget", "scope"}
    /\ calls[1].roles = {"analyst"}
    /\ DenialReasons = {}
    /\ ~is_action_approved(<<"package", "budget", "change">>, calls[1].roles).is_approved
    /\ ~is_action_approved(<<"package", "scope", "change">>, calls[1].roles).is_approved

\* The propose calls that returned.
ProposeReturned ==
    {i \in DOMAIN calls :
        calls[i].op = "propose_package_patch" /\ calls[i].state = "returned"}

\* The propose calls that are under way or were cut short.
ProposeUnfinished ==
    {i \in DOMAIN calls :
        calls[i].op = "propose_package_patch" /\ calls[i].state \in {"running", "crashed"}}

CompleteAnswer(i) ==
    LET edge == <<calls[i].from_status, calls[i].to_status>>
    IN IF calls[i].op = "is_valid" THEN {edge \in PackageRules}
       ELSE IF calls[i].op = "get_rule" THEN {edge} \cap PackageRules
       ELSE {to_status \in PackageStatuses : <<calls[i].from_status, to_status>> \in PackageRules}

(* C33: every call of is_valid, get_rule or get_valid_next_statuses returns  *)
(* the answer of the complete rule list, also when it runs while another     *)
(* caller's first call is still building the lookup table.                   *)
C33_NoPartialTableObserved ==
    \A i \in DOMAIN calls :
        calls[i].state = "returned" => calls[i].result = CompleteAnswer(i)

\* The events of the entity the timeline call names.
EventsOfEntity ==
    {e \in DOMAIN events :
        /\ events[e].entity_type = calls[1].entity_type
        /\ events[e].entity_id = calls[1].entity_id}

\* What the timeline call returned is right for the log as it is.
TimelineIsRight ==
    LET result == calls[1].result
        ids == {result[i].id : i \in DOMAIN result}
    IN /\ Len(result) <= calls[1].limit
       /\ Len(result) = Cardinality(ids)
       /\ Len(result) < calls[1].limit => ids = EventsOfEntity
       /\ ids \subseteq EventsOfEntity
       /\ \A i \in DOMAIN result :
             /\ result[i].entity_type = calls[1].entity_type
             /\ result[i].entity_id = calls[1].entity_id
             /\ result[i].created_at = events[result[i].id].created_at
       /\ \A i, j \in DOMAIN result :
             i < j => result[i].created_at >= result[j].created_at
       /\ \A e \in EventsOfEntity \ ids :
             \A i \in DOMAIN result : events[e].created_at <= result[i].created_at

EscalatedEvents(t) ==
    {e \in DOMAIN events :
        events[e].event_type = "task_escalated" /\ events[e].entity_id = t}

(* C35: for any number of sequential, retried or overlapping runs of         *)
(* check_overdue_tasks, at most one TASK_ESCALATED event exists for each     *)
(* task, and no run fails.                                                   *)
C35_EscalatedOncePerTask ==
    /\ \A t \in DOMAIN tasks : Cardinality(EscalatedEvents(t)) <= 1
    /\ \A i \in DOMAIN calls : calls[i].state # "raised"

\* The first half of C35 alone: at most one TASK_ESCALATED event per task.
AtMostOneEscalation == \A t \in DOMAIN tasks : Cardinality(EscalatedEvents(t)) <= 1

\* The keyed write handlers.
KeyedWrites == {"create_task", "append_event", "approve_proposal"}

\* The step opens a keyed write call whose key has a stored result.
OpensWithStoredKey ==
    /\ Len(calls') = Len(calls) + 1
    /\ calls'[Len(calls')].op \in KeyedWrites
    /\ HasLog(calls'[Len(calls')].key)

(* C36: once a result is stored under a key, every later create_task,       *)
(* append_event or approve_proposal call with that key, whatever its target, *)
(* returns the stored result without entering its body and changes no       *)
(* state; an approve_proposal with a key used for another approval leaves   *)
(* its own approval pending.                                                *)
C36_StoredKeyAnswersEveryWrite ==
    [][OpensWithStoredKey =>
          /\ calls'[Len(calls')].state = "returned"
          /\ calls'[Len(calls')].result = get_idempotent_result(calls'[Len(calls')].key)
          /\ UNCHANGED <<packages, approvals, events, tasks, idempotency_logs,
                         service_modes, proc>>]_vars

\* Approval 1 was rejected under a key; a decide of approval 2 with the same
\* key returned approval 1's result and approval 2 is still pending.
C36_Witness ==
    \E i, j \in DOMAIN calls :
        /\ i < j
        /\ calls[i].op = "approve_proposal" /\ calls[i].target = 1
        /\ calls[i].state = "returned" /\ calls[i].result.status = "rejected"
        /\ calls[j].op = "approve_proposal" /\ calls[j].target = 2
        /\ calls[j].key = calls[i].key /\ calls[j].arg = "approved"
        /\ calls[j].state = "returned" /\ calls[j].result.id = 1
        /\ approvals[2].status = "pending"

\* The spellings of 'approved', compared without regard to case.
ApprovedSpellings == {"approved", "APPROVED", "Approved"}

\* Handler p is at pc in a decide call whose decision is not 'approved',
\* and takes the step.
RejectingAt(p, pc) ==
    /\ proc[p].pc = pc
    /\ Me(p).arg \notin ApprovedSpellings
    /\ proc'[p] # proc[p]

(* C37: approve_proposal treats every decision string that is not           *)
(* 'approved', compared without regard to case, as a rejection: on a        *)
(* pending approval it goes on to the commit, which sets the status to      *)
(* rejected, leaves the packages alone and appends one APPROVAL_DECIDED     *)
(* event and nothing else; no decision is refused.                          *)
C37_NonApprovedIsRejection ==
    [][\A p \in Procs :
          /\ ( /\ RejectingAt(p, "ap_load")
               /\ Me(p).target \in DOMAIN approvals
               /\ approvals[Me(p).target].status = "pending" )
             => proc'[p].pc = "ap_commit"
          /\ RejectingAt(p, "ap_commit")
             => /\ approvals' = [approvals EXCEPT ![Me(p).target].status = "rejected",
                                                  ![Me(p).target].decided_by = p,
                                                  ![Me(p).target].decided_at = proc[p].call]
                /\ packages' = packages
                /\ Len(events') = Len(events) + 1
                /\ events'[Len(events')].event_type = "approval_decided"
                /\ events'[Len(events')].entity_id = Me(p).target
                /\ proc'[p].pc = "ap_store"
                /\ proc'[p].result.status = "rejected"]_vars

\* A decide with a word that is neither 'approved' nor 'rejected' returned
\* and its approval is rejected.
C37_Witness ==
    \E i \in DOMAIN calls :
        /\ calls[i].op = "approve_proposal" /\ calls[i].arg = "maybe"
        /\ calls[i].state = "returned" /\ calls[i].result.id = calls[i].target
        /\ calls[i].result.detail = "maybe"
        /\ approvals[calls[i].target].status = "rejected"

\* The validated call sets a status on an entity that has none: the status
\* is missing or None, or it is the empty string.
SetsStatusOnNone ==
    /\ Validated
    /\ calls[1].current_status \in {Absent, ""}
    /\ calls[1].patch.status \in StatusesOf(calls[1].entity_type)

(* C38: when the entity has no current status (missing, None or empty), a   *)
(* patch that sets a status, whichever, is not rejected as an invalid       *)
(* transition: the result carries a decision type, no reason about a        *)
(* transition, and only reasons of the role check and of the risk check,    *)
(* which alone decide whether approval is required.                         *)
C38_NoCurrentStatusSkipsTransitionCheck ==
    SetsStatusOnNone =>
        LET result == calls[1].result
        IN /\ result.decision_type # NoDecision
           /\ \A i \in DOMAIN result.reasons :
                 /\ ~Contains(result.reasons[i], <<"Invalid">>)
                 /\ ~Contains(result.reasons[i], <<"Transition">>)
                 /\ i \in DenialReasons \cup RiskReasons
           /\ result.is_allowed
           /\ result.requires_approval =
                 ( \/ MatrixDenies
                   \/ /\ HasDecision(calls[1].impact, calls[1].uncertainty)
                      /\ risk_requires_approval(calls[1].impact, calls[1].uncertainty) )

\* A package with an empty status is set to archived, which no package in
\* the graph reaches but from completed or cancelled, and the call is allowed.
C38_Witness ==
    /\ SetsStatusOnNone
    /\ calls[1].entity_type = "package"
    /\ calls[1].current_status = ""
    /\ calls[1].patch.status = "archived"
    /\ calls[1].result.is_allowed
    /\ calls[1].result.reasons = <<>>

\* The package statuses reached from the statuses seen by moves is_valid allows.
RECURSIVE PackageReach(_)
PackageReach(seen) ==
    LET more == seen \cup {t \in PackageStatuses : \E f \in seen : PackageIsValid(f, t)}
    IN IF more = seen THEN seen ELSE PackageReach(more)

\* The same for the task statuses.
RECURSIVE TaskReach(_)
TaskReach(seen) ==
    LET more == seen \cup {t \in TaskStatuses : \E f \in seen : TaskIsValid(f, t)}
    IN IF more = seen THEN seen ELSE TaskReach(more)

\* A task status that has a move out of it.
TaskNonTerminal(status) == \E t \in TaskStatuses : TaskIsValid(status, t)

(* C39: whatever status of its enum the package is in, that status is       *)
(* reached from draft by valid moves and archived is reached from it;       *)
(* whatever status of its enum the task is in, that status is reached from  *)
(* pending, and where it is not terminal, completed or cancelled is reached *)
(* from it.                                                                 *)
C39_NoUnreachableNoStuckStatus ==
    /\ packages[1].status \in PackageStatuses
          => /\ packages[1].status \in PackageReach({"draft"})
             /\ "archived" \in PackageReach({packages[1].status})
    /\ tasks[1].status \in TaskStatuses
          => /\ tasks[1].status \in TaskReach({"pending"})
             /\ TaskNonTerminal(tasks[1].status)
                   => {"completed", "cancelled"} \cap TaskReach({tasks[1].status}) # {}

\* The package has just been put on hold and the task is blocked: the two
\* statuses with one way out.
C39_Witness ==
    /\ calls # <<>> /\ calls[1].op = "transition"
    /\ calls[1].to_status = "on_hold" /\ calls[1].is_valid
    /\ packages[1].status = "on_hold"
    /\ tasks[1].status = "blocked"

\* An approval is pending exactly when it has no decider and no decision time.
PendingIffUndecided ==
    \A a \in DOMAIN approvals :
        approvals[a].status = "pending"
           <=> (approvals[a].decided_by = 0 /\ approvals[a].decided_at = 0)

(* C40: after every step an approval is pending if and only if its          *)
(* decided_by and decided_at are unset, and an approval that is approved or  *)
(* rejected keeps the decided_by and decided_at it has.                      *)
C40_DecidedOnceAndForAll ==
    [][ /\ PendingIffUndecided'
        /\ \A a \in DOMAIN approvals :
              approvals[a].status # "pending"
                 => /\ approvals'[a].decided_by = approvals[a].decided_by
                    /\ approvals'[a].decided_at = approvals[a].decided_at ]_vars

====
